---- MODULE Spec2Model ----
(***************************************************************************)
(* Model of the vips processor of mrsool-imagor (package vipsprocessor):   *)
(* the thumbnail / crop / fallback decision logic of Processor, the        *)
(* resolution guard, the frame-range helpers and the process-wide          *)
(* Startup/Shutdown reference count.                                       *)
(*                                                                         *)
(* Three specifications share the variables:                               *)
(*   Spec      one request through NewThumbnail / NewImage, statement by   *)
(*             statement, with every handle and streaming source tracked;  *)
(*   SpecUnit  direct calls of CheckResolution, Thumbnail, FocalThumbnail  *)
(*             and animatedThumbnailWithCrop on a handle the caller owns;  *)
(*   SpecLife  interleavings of Startup and Shutdown of several Processors.*)
(***************************************************************************)
EXTENDS Integers, Sequences, FiniteSets, TLC

VARIABLES
    pc,             \* position of the request: "idle", a statement label, "done", "closed"
    op,             \* the exported function called: "NewThumbnail", "NewImage", ...
    args,           \* its arguments (n and page are rewritten by the re-entry)
    cfg,            \* the Processor's fields read by the request: Unlimited, FallbackFunc
    depth,          \* number of re-entries of NewThumbnail / NewImage made so far
    handles,        \* every *vips.Image created: its pixels' metadata, close count, guard flag
    img,            \* the local variable img: an index into handles, 0 is nil
    err,            \* the local variable err
    sources,        \* every *vips.Source opened by vips.NewSource: its Close count
    deferred,       \* callbacks registered with contextDefer: indices into sources
    log,            \* the primitive operations performed, in order
    result,         \* what the call returned: [img, err]
    ctx,            \* the request's context: whether it is cancelled, and the log length then
    processorCount, \* var processorCount int
    vipsRunning,    \* whether the native library is started
    vipsStartups,   \* number of vips.Startup calls made
    vipsShutdowns,  \* number of vips.Shutdown calls made
    calls,          \* number of Processor.Startup and Processor.Shutdown calls made, and
                    \* the Processors whose Startup has returned
    fallbackFunc,   \* per Processor: its FallbackFunc field
    currentContext, \* var currentContext context.Context
    contextMutex,   \* var contextMutex sync.RWMutex: its writer and its readers
    threads,        \* the goroutines calling setCurrentContext / getCurrentContext
    lastSet         \* the value of the setCurrentContext call that returned last

reqVars ==
    <<pc, op, args, cfg, depth, handles, img, err, sources, deferred, log, result, ctx>>
lifeVars == <<processorCount, vipsRunning, vipsStartups, vipsShutdowns, calls, fallbackFunc>>
hookVars == <<currentContext, contextMutex, threads, lastSet>>
vars == <<reqVars, lifeVars, hookVars>>

(***************************************************************************)
(* Bounds of the model.  MaxWidth, MaxHeight and MaxResolution are the     *)
(* Processor's configurable limits, scaled down so that sources on both    *)
(* sides of each limit are enumerated.                                     *)
(***************************************************************************)
MaxWidth == 5
MaxHeight == 5
MaxResolution == 15
MaxDim == 6          \* largest raw width / page height of a handle given to a direct call
MaxTarget == 4       \* largest target width / height
MaxN == 2            \* n and page range over -MaxN..MaxN
MaxDepth == 3        \* re-entries explored before the model stops following them
MaxProcs == 3        \* number of Processors sharing the native library
MaxCalls == 4        \* Startup calls, and Shutdown calls, followed
MaxThreads == 3      \* goroutines using the shared logging context

Min(a, b) == IF a <= b THEN a ELSE b
\* Go's integer division truncates toward zero.
GoDiv(a, b) == IF a >= 0 THEN a \div b ELSE -((-a) \div b)
Max(a, b) == IF a >= b THEN a ELSE b

(***************************************************************************)
(* Errors.  kind "nil" is a nil error, "imagor" an imagor.Error value,     *)
(* "raw" any other error; msg is the message as a sequence of tokens, " "  *)
(* being white space.                                                      *)
(***************************************************************************)
ErrNil == [kind |-> "nil", msg |-> <<>>, status |-> 0]
ErrNotFound == [kind |-> "imagor", msg |-> <<"ErrNotFound">>, status |-> 0]
ErrMaxResolutionExceeded == [kind |-> "imagor", msg |-> <<"ErrMaxResolutionExceeded">>, status |-> 0]
ErrUnsupportedFormat == [kind |-> "imagor", msg |-> <<"ErrUnsupportedFormat">>, status |-> 0]
RawErr(m) == [kind |-> "raw", msg |-> m, status |-> 0]
NewError(m, s) == [kind |-> "imagor", msg |-> m, status |-> s]

ErrRead == RawErr(<<"read", "failed">>)
ErrVipsLoad == RawErr(<<"VipsForeignLoad:", "corrupt", "data", " ">>)
ErrVipsFormat == RawErr(<<" ", "VipsForeignLoad:", "source", "is not in a known format", " ">>)
ErrFallback == RawErr(<<"fallback", "failed">>)
ErrVipsOp == RawErr(<<"vips", "operation", "failed">>)
ErrExtract == RawErr(<<"extract_area:", "bad extract area">>)

(***************************************************************************)
(* Image handles.  An image value is the metadata the code reads through   *)
(* the accessors Width, PageHeight, Height, Pages and Orientation.         *)
(***************************************************************************)
Image(w, ph, frames, npages, orient) ==
    [w |-> w, ph |-> ph, frames |-> frames, npages |-> npages, orient |-> orient]
Width(im) == im.w
PageHeight(im) == im.ph
Height(im) == im.ph * im.frames
Pages(im) == im.npages
Orientation(im) == im.orient

NoImg == 0
NewHandle(im) == [im |-> im, closes |-> 0, checked |-> FALSE]
Close(hs, i) == [hs EXCEPT ![i].closes = @ + 1]

(***************************************************************************)
(* WrapErr and the error classification.                                   *)
(***************************************************************************)
RECURSIVE TrimLeft(_)
TrimLeft(m) == IF m # <<>> /\ Head(m) = " " THEN TrimLeft(Tail(m)) ELSE m
RECURSIVE TrimRight(_)
TrimRight(m) ==
    IF m # <<>> /\ m[Len(m)] = " " THEN TrimRight(SubSeq(m, 1, Len(m) - 1)) ELSE m
TrimSpace(m) == TrimRight(TrimLeft(m))
HasPrefix(m, t) == m # <<>> /\ Head(m) = t
HasSuffix(m, t) == m # <<>> /\ m[Len(m)] = t

\* Variant: an imagor.Error is forwarded as well.
Captured_ImagorToo(e) ==
    /\ e.kind # "nil"
    /\ ~(/\ HasPrefix(TrimSpace(e.msg), "VipsForeignLoad:")
         /\ HasSuffix(TrimSpace(e.msg), "is not in a known format"))

\* Whether WrapErr(e) reaches sentry.CaptureException.
Captured(e) ==
    /\ e.kind = "raw"
    /\ ~(/\ HasPrefix(TrimSpace(e.msg), "VipsForeignLoad:")
         /\ HasSuffix(TrimSpace(e.msg), "is not in a known format"))

\* Variant: the format pattern is matched on the message as it is, untrimmed.
WrapErr_NoTrim(e) ==
    IF e = ErrNil THEN ErrNil
    ELSE IF e.kind = "imagor" THEN e
    ELSE IF HasPrefix(e.msg, "VipsForeignLoad:") /\ HasSuffix(e.msg, "is not in a known format")
         THEN ErrUnsupportedFormat
    ELSE NewError(TrimSpace(e.msg), 406)

WrapErr(e) ==
    IF e = ErrNil THEN ErrNil
    ELSE IF e.kind = "imagor" THEN e
    ELSE IF /\ HasPrefix(TrimSpace(e.msg), "VipsForeignLoad:")
            /\ HasSuffix(TrimSpace(e.msg), "is not in a known format")
         THEN ErrUnsupportedFormat
    ELSE NewError(TrimSpace(e.msg), 406)

\* A log entry: primitive name, handle (or source), whether it succeeded or, for a
\* resize and for recalculateImage, whether the handle had passed the guard; the image's width and page
\* height after it; for an extraction the rectangle asked for (left, top, tw, th);
\* for a resize the box (tw, th) and the crop option it was given.
Ev(name, h, ok, w, ph) ==
    [op |-> name, h |-> h, ok |-> ok, w |-> w, ph |-> ph,
     left |-> 0, top |-> 0, tw |-> 0, th |-> 0, crop |-> ""]
\* Variant: every non-nil error is forwarded.
SentryEv_EveryError(e) == IF e # ErrNil THEN <<Ev("sentry", NoImg, TRUE, 0, 0)>> ELSE <<>>

SentryEv(e) == IF Captured(e) THEN <<Ev("sentry", NoImg, TRUE, 0, 0)>> ELSE <<>>

(***************************************************************************)
(* CheckResolution: the resolution guard.  Returns the handles after the   *)
(* call, the (img, err) pair it returns and the events it adds to the log. *)
(***************************************************************************)
\* Variant: the area is taken over one frame instead of the full height.
ExceedsLimits_PageArea(im) ==
    \/ Width(im) > MaxWidth
    \/ PageHeight(im) > MaxHeight
    \/ Width(im) * PageHeight(im) > MaxResolution

ExceedsLimits(im) ==
    \/ Width(im) > MaxWidth
    \/ PageHeight(im) > MaxHeight
    \/ Width(im) * Height(im) > MaxResolution

GuardEv(i, ok, im) == <<Ev("CheckResolution", i, ok, Width(im), PageHeight(im))>>

\* Variant: a rejected handle is not closed.
CheckResolution_NoClose(hs, i, e, unlimited) ==
    IF e # ErrNil \/ i = NoImg
    THEN [hs |-> hs, img |-> i, err |-> e, ev |-> <<>>]
    ELSE IF ~unlimited /\ ExceedsLimits(hs[i].im)
    THEN [hs |-> hs, img |-> NoImg, err |-> ErrMaxResolutionExceeded,
          ev |-> GuardEv(i, FALSE, hs[i].im)]
    ELSE [hs |-> [hs EXCEPT ![i].checked = TRUE], img |-> i, err |-> ErrNil,
          ev |-> GuardEv(i, TRUE, hs[i].im)]

CheckResolution(hs, i, e, unlimited) ==
    IF e # ErrNil \/ i = NoImg
    THEN [hs |-> hs, img |-> i, err |-> e, ev |-> <<>>]
    ELSE IF ~unlimited /\ ExceedsLimits(hs[i].im)
    THEN [hs |-> Close(hs, i), img |-> NoImg, err |-> ErrMaxResolutionExceeded,
          ev |-> GuardEv(i, FALSE, hs[i].im)]
    ELSE [hs |-> [hs EXCEPT ![i].checked = TRUE], img |-> i, err |-> ErrNil,
          ev |-> GuardEv(i, TRUE, hs[i].im)]

(***************************************************************************)
(* Frame-range helpers.                                                    *)
(***************************************************************************)
\* blob.SupportsAnimation() || blob.BlobType() == BlobTypePDF
SupportsFrames(blob) == blob.animated \/ blob.type = "pdf"

\* Variant: only n or page above 1 asks for a frame subset.
isMultiPage_AboveOne(blob, n, page) ==
    /\ blob.type # "nil"
    /\ SupportsFrames(blob)
    /\ (n > 1 \/ page > 1)

isMultiPage(blob, n, page) ==
    /\ blob.type # "nil"
    /\ SupportsFrames(blob)
    /\ ((n # 1 /\ n # 0) \/ (page # 1 /\ page # 0))

\* vips.LoadOptions relevant to frames: Page (0 when unset) and N (0 when unset).
NoOptions == [Page |-> 0, N |-> 0]
\* Variant: n takes precedence over page.
applyMultiPageOptions_NFirst(params, n, page) ==
    IF n < -1 THEN [params EXCEPT !.N = -n]
    ELSE IF page < -1 THEN [params EXCEPT !.Page = -page - 1]
    ELSE [params EXCEPT !.N = -1]

applyMultiPageOptions(params, n, page) ==
    IF page < -1 THEN [params EXCEPT !.Page = -page - 1]
    ELSE IF n < -1 THEN [params EXCEPT !.N = -n]
    ELSE [params EXCEPT !.N = -1]

\* recalculateImage: closes the handle and returns the clamped (n, page).
Clamped(numPages, n, page) ==
    IF page > 1 /\ page > numPages THEN [n |-> n, page |-> numPages]
    ELSE IF n > 1 /\ n > numPages THEN [n |-> numPages, page |-> page]
    ELSE [n |-> n, page |-> page]

recalculateImage(hs, i, n, page) ==
    [hs |-> Close(hs, i),
     n |-> Clamped(Pages(hs[i].im), n, page).n,
     page |-> Clamped(Pages(hs[i].im), n, page).page]

(***************************************************************************)
(* The collaborator library's primitives, as far as the control logic      *)
(* reads their results.  ThumbnailImage fits the image into the            *)
(* (width, height) box: it scales both dimensions by one factor, the       *)
(* smaller of width/iw and height/ih when crop is "none" and the larger    *)
(* one followed by a crop to the box otherwise; size "down" never enlarges,*)
(* "up" never reduces, "force" stretches to the box.  An orientation code  *)
(* above 4 is applied first (width and page height change places) and the  *)
(* tag is reset.  Dimensions are rounded to whole pixels, at least 1.      *)
(***************************************************************************)
RoundDiv(a, b) == (2 * a + b) \div (2 * b)

\* The extents the primitive scales: those of the image as displayed.
Oriented(im) ==
    IF im.orient > 4 THEN [w |-> im.ph, h |-> im.w] ELSE [w |-> im.w, h |-> im.ph]

\* The scale factor num/den that fits (crop "none") or covers the box.
BoxFactor(o, width, height, crop) ==
    IF (IF crop = "none" THEN width * o.h <= height * o.w ELSE width * o.h >= height * o.w)
    THEN [num |-> width, den |-> o.w]
    ELSE [num |-> height, den |-> o.h]

SizeFactor(f, size) ==
    IF (size = "down" /\ f.num > f.den) \/ (size = "up" /\ f.num < f.den)
    THEN [num |-> 1, den |-> 1]
    ELSE f

ScaleDim(d, f) == Max(1, RoundDiv(d * f.num, f.den))

Resized(im, o, f, width, height, crop, size) ==
    IF size = "force"
    THEN [im EXCEPT !.w = width, !.ph = height, !.orient = 1]
    ELSE IF crop = "none"
    THEN [im EXCEPT !.w = ScaleDim(o.w, f), !.ph = ScaleDim(o.h, f), !.orient = 1]
    ELSE [im EXCEPT !.w = Min(ScaleDim(o.w, f), width),
                    !.ph = Min(ScaleDim(o.h, f), height), !.orient = 1]

ThumbnailImage(im, width, height, crop, size) ==
    Resized(im, Oriented(im), SizeFactor(BoxFactor(Oriented(im), width, height, crop), size),
            width, height, crop, size)

\* extract_area on every frame: fails when the rectangle leaves the frame.
ExtractOk(im, left, top, w, h) ==
    /\ left >= 0 /\ top >= 0 /\ w >= 1 /\ h >= 1
    /\ left + w <= im.w /\ top + h <= im.ph
ExtractAreaMultiPage(im, left, top, w, h) == [im EXCEPT !.w = w, !.ph = h]

\* The outcome of an operation on the handles: what it leaves, its error, its log entries.
Outcome(hs, e, ev) == [hs |-> hs, err |-> e, ev |-> ev]
Then(r, x) == Outcome(x.hs, x.err, r.ev \o x.ev)

ThumbnailEv(name, i, checked, im2, width, height, crop) ==
    [Ev(name, i, checked, im2.w, im2.ph) EXCEPT !.tw = width, !.th = height, !.crop = crop]

Thumbnailed(hs, i, im2, width, height, crop) ==
    Outcome([hs EXCEPT ![i].im = im2, ![i].checked = FALSE], ErrNil,
            <<ThumbnailEv("ThumbnailImage", i, hs[i].checked, im2, width, height, crop)>>)

\* img.ThumbnailImage on handle i; fail is the library failing for its own reasons.
DoThumbnailImage(hs, i, width, height, crop, size, fail) ==
    IF fail
    THEN Outcome(hs, ErrVipsOp,
                 <<ThumbnailEv("ThumbnailImageFailed", i, hs[i].checked, hs[i].im,
                               width, height, crop)>>)
    ELSE Thumbnailed(hs, i, ThumbnailImage(hs[i].im, width, height, crop, size),
                     width, height, crop)

ExtractEv(i, im, left, top, w, h) ==
    [Ev("ExtractAreaMultiPage", i, ExtractOk(im, left, top, w, h), im.w, im.ph)
        EXCEPT !.left = left, !.top = top, !.tw = w, !.th = h]

\* img.ExtractAreaMultiPage on handle i.
DoExtract(hs, i, left, top, w, h, fail) ==
    IF ~ExtractOk(hs[i].im, left, top, w, h)
    THEN Outcome(hs, ErrExtract, <<ExtractEv(i, hs[i].im, left, top, w, h)>>)
    ELSE IF fail
    THEN Outcome(hs, ErrVipsOp, <<ExtractEv(i, hs[i].im, left, top, w, h)>>)
    ELSE Outcome([hs EXCEPT ![i].im = ExtractAreaMultiPage(hs[i].im, left, top, w, h)],
                 ErrNil, <<ExtractEv(i, hs[i].im, left, top, w, h)>>)

(***************************************************************************)
(* Crop-strategy selector.  fail is "none", "resize" or "extract": which   *)
(* primitive, if any, the library fails for reasons of its own.            *)
(* float64(w)/float64(h) > float64(iw)/float64(ih) is compared exactly as  *)
(* w*ih > iw*h: all operands are positive and far below 2^26.              *)
(***************************************************************************)
\* Variant: equal aspect ratios scale by width.
ScaleByWidth_OrEqual(w, h, iw, ih) == w * ih >= iw * h

ScaleByWidth(w, h, iw, ih) == w * ih > iw * h

\* The resize step shared by animatedThumbnailWithCrop and FocalThumbnail.
ResizeStep(hs, i, w, h, iw, ih, size, fail) ==
    IF ScaleByWidth(w, h, iw, ih)
    THEN DoThumbnailImage(hs, i, w, MaxHeight, "none", size, fail = "resize")
    ELSE DoThumbnailImage(hs, i, MaxWidth, h, "none", size, fail = "resize")

\* Variant: the attention policy keeps the origin at 0.
CropOffset_AttentionZero(crop, extent, target) ==
    IF crop = "high" THEN extent - target
    ELSE IF crop = "centre" THEN GoDiv(extent - target, 2)
    ELSE 0

\* left or top of animatedThumbnailWithCrop from the resized extent and the target.
CropOffset(crop, extent, target) ==
    IF crop = "high" THEN extent - target
    ELSE IF crop \in {"centre", "attention"} THEN GoDiv(extent - target, 2)
    ELSE 0

CropStep(r, i, w, h, crop, fail) ==
    IF r.err # ErrNil THEN r
    ELSE Then(r, DoExtract(r.hs, i, CropOffset(crop, Width(r.hs[i].im), w),
                           CropOffset(crop, PageHeight(r.hs[i].im), h),
                           w, h, fail = "extract"))

\* Variant: no early return for a small source under size "down".
animatedThumbnailWithCrop_NoEarlyReturn(hs, i, w, h, crop, size, fail) ==
    CropStep(ResizeStep(hs, i, w, h, Width(hs[i].im), PageHeight(hs[i].im), size, fail),
             i, w, h, crop, fail)

animatedThumbnailWithCrop(hs, i, w, h, crop, size, fail) ==
    IF size = "down" /\ Width(hs[i].im) < w /\ PageHeight(hs[i].im) < h
    THEN Outcome(hs, ErrNil, <<>>)
    ELSE CropStep(ResizeStep(hs, i, w, h, Width(hs[i].im), PageHeight(hs[i].im), size, fail),
                  i, w, h, crop, fail)

\* Variant: size force does not keep a cropped multi-frame image off the selector.
Thumbnail_ForceCrops(hs, i, width, height, crop, size, fail) ==
    IF crop = "none" \/ Height(hs[i].im) = PageHeight(hs[i].im)
    THEN DoThumbnailImage(hs, i, width, height, crop, size, fail = "resize")
    ELSE animatedThumbnailWithCrop(hs, i, width, height, crop, size, fail)

\* Thumbnail: the plain resize unless a cropped multi-frame image needs the selector.
Thumbnail(hs, i, width, height, crop, size, fail) ==
    IF crop = "none" \/ size = "force" \/ Height(hs[i].im) = PageHeight(hs[i].im)
    THEN DoThumbnailImage(hs, i, width, height, crop, size, fail = "resize")
    ELSE animatedThumbnailWithCrop(hs, i, width, height, crop, size, fail)

\* Focal points are fractions fx = fxn / FDen, fy = fyn / FDen.
FDen == 2

\* int(math.Max(0, math.Min(v, bound))) for v = twice / (2*FDen).
ClampTrunc(twice, bound) ==
    IF Min(twice, 2 * FDen * bound) <= 0 THEN 0
    ELSE Min(twice, 2 * FDen * bound) \div (2 * FDen)

\* extent*f - target/2 with f = fn / FDen, clamped into [0, extent - target].
FocalOffset(extent, fn, target) ==
    ClampTrunc(2 * extent * fn - target * FDen, extent - target)

FocalCropStep(r, i, w, h, fxn, fyn, fail) ==
    IF r.err # ErrNil THEN r
    ELSE Then(r, DoExtract(r.hs, i, FocalOffset(Width(r.hs[i].im), fxn, w),
                           FocalOffset(PageHeight(r.hs[i].im), fyn, h),
                           w, h, fail = "extract"))

\* Variant: the aspect comparison uses the raw width and page height.
FocalThumbnail_RawExtents(hs, i, w, h, fxn, fyn, fail) ==
    FocalCropStep(ResizeStep(hs, i, w, h, Width(hs[i].im), PageHeight(hs[i].im),
                             "both", fail),
                  i, w, h, fxn, fyn, fail)

FocalThumbnail(hs, i, w, h, fxn, fyn, fail) ==
    FocalCropStep(ResizeStep(hs, i, w, h, Oriented(hs[i].im).w, Oriented(hs[i].im).h,
                             "both", fail),
                  i, w, h, fxn, fyn, fail)

(***************************************************************************)
(* Startup and Shutdown: the process-wide reference count.  Both run under *)
(* processorLock, so each is one atomic step.                              *)
(***************************************************************************)
Procs == 1..MaxProcs

\* Variant: every Shutdown that decrements the count tears the library down.
Shutdown_TeardownAlways(p) ==
    /\ calls.shutdown < MaxCalls
    /\ calls' = [calls EXCEPT !.shutdown = @ + 1]
    /\ IF processorCount <= 0
       THEN UNCHANGED <<processorCount, vipsRunning, vipsShutdowns>>
       ELSE /\ processorCount' = processorCount - 1
            /\ vipsRunning' = FALSE
            /\ vipsShutdowns' = vipsShutdowns + 1
    /\ UNCHANGED <<vipsStartups, fallbackFunc, reqVars, hookVars>>

\* Variant: every Startup detects the fallback anew.
Startup_Redetects(p) ==
    /\ calls.startup < MaxCalls
    /\ calls' = [calls EXCEPT !.startup = @ + 1, !.started = @ \cup {p}]
    /\ processorCount' = processorCount + 1
    /\ IF processorCount + 1 <= 1
       THEN vipsRunning' = TRUE /\ vipsStartups' = vipsStartups + 1
       ELSE UNCHANGED <<vipsRunning, vipsStartups>>
    /\ \E f \in {"bufferFallbackFunc", "bmpFallbackFunc"} :
           fallbackFunc' = [fallbackFunc EXCEPT ![p] = f]
    /\ UNCHANGED <<vipsShutdowns, reqVars, hookVars>>

\* Variant: Shutdown decrements the count whatever its value.
Shutdown_NoFloor(p) ==
    /\ calls.shutdown < MaxCalls
    /\ calls' = [calls EXCEPT !.shutdown = @ + 1]
    /\ processorCount' = processorCount - 1
    /\ IF processorCount - 1 = 0
       THEN vipsRunning' = FALSE /\ vipsShutdowns' = vipsShutdowns + 1
       ELSE UNCHANGED <<vipsRunning, vipsShutdowns>>
    /\ UNCHANGED <<vipsStartups, fallbackFunc, reqVars, hookVars>>

Startup(p) ==
    /\ calls.startup < MaxCalls
    /\ calls' = [calls EXCEPT !.startup = @ + 1, !.started = @ \cup {p}]
    /\ processorCount' = processorCount + 1
    /\ IF processorCount + 1 <= 1
       THEN vipsRunning' = TRUE /\ vipsStartups' = vipsStartups + 1
       ELSE UNCHANGED <<vipsRunning, vipsStartups>>
    /\ IF fallbackFunc[p] = "nil"
       THEN \E f \in {"bufferFallbackFunc", "bmpFallbackFunc"} :
                fallbackFunc' = [fallbackFunc EXCEPT ![p] = f]
       ELSE UNCHANGED fallbackFunc
    /\ UNCHANGED <<vipsShutdowns, reqVars, hookVars>>

Shutdown(p) ==
    /\ calls.shutdown < MaxCalls
    /\ calls' = [calls EXCEPT !.shutdown = @ + 1]
    /\ IF processorCount <= 0
       THEN UNCHANGED <<processorCount, vipsRunning, vipsShutdowns>>
       ELSE /\ processorCount' = processorCount - 1
            /\ IF processorCount - 1 = 0
               THEN vipsRunning' = FALSE /\ vipsShutdowns' = vipsShutdowns + 1
               ELSE UNCHANGED <<vipsRunning, vipsShutdowns>>
    /\ UNCHANGED <<vipsStartups, fallbackFunc, reqVars, hookVars>>

(***************************************************************************)
(* The shared logging context: currentContext guarded by contextMutex.     *)
(* A sync.RWMutex is held by one writer or by any number of readers.       *)
(* Each goroutine calls setCurrentContext or getCurrentContext again and   *)
(* again; every lock operation and every access is a step of its own.      *)
(***************************************************************************)
Threads == 1..MaxThreads
CtxValues == {"ctx1", "ctx2"}

InitHook ==
    /\ currentContext = "nil"
    /\ contextMutex = [writer |-> FALSE, readers |-> 0]
    /\ threads = [t \in Threads |-> [pc |-> "idle", val |-> "nil"]]
    /\ lastSet = "nil"

HookStep(t, next, v) ==
    /\ threads' = [threads EXCEPT ![t] = [pc |-> next, val |-> v]]
    /\ UNCHANGED <<reqVars, lifeVars>>

\* A goroutine calls setCurrentContext(ctx).
CallSetCurrentContext(t) ==
    /\ threads[t].pc = "idle"
    /\ \E v \in CtxValues : HookStep(t, "set_lock", v)
    /\ UNCHANGED <<currentContext, contextMutex, lastSet>>

\* Variant: the writer takes the lock without waiting for readers or a writer.
SetLock_NoWait(t) ==
    /\ threads[t].pc = "set_lock"
    /\ contextMutex' = [contextMutex EXCEPT !.writer = TRUE]
    /\ HookStep(t, "set_write", threads[t].val)
    /\ UNCHANGED <<currentContext, lastSet>>

\* contextMutex.Lock()
SetLock(t) ==
    /\ threads[t].pc = "set_lock"
    /\ ~contextMutex.writer /\ contextMutex.readers = 0
    /\ contextMutex' = [contextMutex EXCEPT !.writer = TRUE]
    /\ HookStep(t, "set_write", threads[t].val)
    /\ UNCHANGED <<currentContext, lastSet>>

\* currentContext = ctx
SetWrite(t) ==
    /\ threads[t].pc = "set_write"
    /\ currentContext' = threads[t].val
    /\ HookStep(t, "set_unlock", threads[t].val)
    /\ UNCHANGED <<contextMutex, lastSet>>

\* contextMutex.Unlock(), and the call returns.
SetUnlock(t) ==
    /\ threads[t].pc = "set_unlock"
    /\ contextMutex' = [contextMutex EXCEPT !.writer = FALSE]
    /\ lastSet' = threads[t].val
    /\ HookStep(t, "idle", threads[t].val)
    /\ UNCHANGED currentContext

\* A goroutine calls getCurrentContext().
CallGetCurrentContext(t) ==
    /\ threads[t].pc = "idle"
    /\ HookStep(t, "get_rlock", "nil")
    /\ UNCHANGED <<currentContext, contextMutex, lastSet>>

\* contextMutex.RLock()
GetRLock(t) ==
    /\ threads[t].pc = "get_rlock"
    /\ ~contextMutex.writer
    /\ contextMutex' = [contextMutex EXCEPT !.readers = @ + 1]
    /\ HookStep(t, "get_read", "nil")
    /\ UNCHANGED <<currentContext, lastSet>>

\* return currentContext: the result is evaluated before the deferred RUnlock.
GetRead(t) ==
    /\ threads[t].pc = "get_read"
    /\ HookStep(t, "get_runlock", currentContext)
    /\ UNCHANGED <<currentContext, contextMutex, lastSet>>

\* The deferred contextMutex.RUnlock(), and the call returns val.
GetRUnlock(t) ==
    /\ threads[t].pc = "get_runlock"
    /\ contextMutex' = [contextMutex EXCEPT !.readers = @ - 1]
    /\ HookStep(t, "returned", threads[t].val)
    /\ UNCHANGED <<currentContext, lastSet>>

\* The caller has the value getCurrentContext returned.
GetReturned(t) ==
    /\ threads[t].pc = "returned"
    /\ HookStep(t, "idle", "nil")
    /\ UNCHANGED <<currentContext, contextMutex, lastSet>>

NextHook ==
    \E t \in Threads :
        \/ CallSetCurrentContext(t) \/ SetLock(t) \/ SetWrite(t) \/ SetUnlock(t)
        \/ CallGetCurrentContext(t) \/ GetRLock(t) \/ GetRead(t) \/ GetRUnlock(t)
        \/ GetReturned(t)

InitReq ==
    /\ pc = "idle"
    /\ op = "none"
    /\ args = [n |-> 0, page |-> 0]
    /\ cfg = [Unlimited |-> FALSE, FallbackFunc |-> FALSE]
    /\ depth = 0
    /\ handles = <<>>
    /\ img = NoImg
    /\ err = ErrNil
    /\ sources = <<>>
    /\ deferred = <<>>
    /\ log = <<>>
    /\ result = [img |-> NoImg, err |-> ErrNil]
    /\ ctx = [cancelled |-> FALSE, at |-> 0]

InitLifeIdle ==
    /\ processorCount = 0
    /\ vipsRunning = FALSE
    /\ vipsStartups = 0
    /\ vipsShutdowns = 0
    /\ calls = [startup |-> 0, shutdown |-> 0, started |-> {}]
    /\ fallbackFunc = [p \in Procs |-> "nil"]
    /\ InitHook

InitLife ==
    /\ InitReq
    /\ processorCount = 0
    /\ vipsRunning = FALSE
    /\ vipsStartups = 0
    /\ vipsShutdowns = 0
    /\ calls = [startup |-> 0, shutdown |-> 0, started |-> {}]
    /\ fallbackFunc \in [Procs -> {"nil", "custom"}]
    /\ InitHook

NextLife == \E p \in Procs : Startup(p) \/ Shutdown(p)

SpecLife == InitLife /\ [][NextLife]_vars

(***************************************************************************)
(* Direct calls on a handle the caller owns.                               *)
(***************************************************************************)
Crops == {"none", "centre", "attention", "high", "low"}
Sizes == {"both", "up", "down", "force"}
Fails == {"none", "resize", "extract"}
Targets == 1..MaxTarget
\* Orientation codes: no tag, and both ends of the codes that transpose the image.
Orientations == {0, 4, 5, 8}
UnitImages ==
    {Image(w, ph, f, f, o) : w \in 1..MaxDim, ph \in 1..MaxDim, f \in {1, 2},
                             o \in Orientations}

\* The caller decodes an image of its own and holds its handle.
OwnHandle ==
    /\ pc = "idle"
    /\ \E im \in UnitImages : handles' = <<NewHandle(im)>>
    /\ pc' = "owned"
    /\ UNCHANGED <<op, args, cfg, depth, img, err, sources, deferred, log, result, ctx, lifeVars, hookVars>>

\* The call returns r.img and r.err.
Returns(r) ==
    /\ handles' = r.hs
    /\ img' = r.img
    /\ err' = r.err
    /\ log' = log \o r.ev
    /\ result' = [img |-> r.img, err |-> r.err]

\* The call works on the caller's handle 1 in place and returns r.err.
Applies(r) ==
    /\ handles' = r.hs
    /\ img' = 1
    /\ err' = r.err
    /\ log' = log \o r.ev
    /\ result' = [img |-> 1, err |-> r.err]

CallCheckResolution ==
    /\ pc = "owned"
    /\ \E e \in {ErrNil, ErrVipsLoad}, i \in {NoImg, 1}, u \in BOOLEAN :
        /\ op' = "CheckResolution"
        /\ args' = [img |-> i, err |-> e, im |-> handles[1].im]
        /\ cfg' = [cfg EXCEPT !.Unlimited = u]
        /\ Returns(CheckResolution(handles, i, e, u))
    /\ pc' = "done"
    /\ UNCHANGED <<depth, sources, deferred, ctx, lifeVars, hookVars>>

CallThumbnail ==
    /\ pc = "owned"
    /\ \E w \in Targets, h \in Targets, crop \in Crops, size \in Sizes, fail \in Fails :
        /\ op' = "Thumbnail"
        /\ args' = [im |-> handles[1].im, width |-> w, height |-> h,
                    crop |-> crop, size |-> size]
        /\ Applies(Thumbnail(handles, 1, w, h, crop, size, fail))
    /\ pc' = "done"
    /\ UNCHANGED <<cfg, depth, sources, deferred, ctx, lifeVars, hookVars>>

CallFocalThumbnail ==
    /\ pc = "owned"
    /\ \E w \in Targets, h \in Targets, fxn \in 0..FDen, fyn \in 0..FDen, fail \in Fails :
        /\ op' = "FocalThumbnail"
        /\ args' = [im |-> handles[1].im, width |-> w, height |-> h,
                    fxn |-> fxn, fyn |-> fyn]
        /\ Applies(FocalThumbnail(handles, 1, w, h, fxn, fyn, fail))
    /\ pc' = "done"
    /\ UNCHANGED <<cfg, depth, sources, deferred, ctx, lifeVars, hookVars>>

\* recalculateImage on the caller's handle: it returns (n, page).
CallRecalculateImage ==
    /\ pc = "owned"
    /\ \E n \in -MaxN..MaxN + 1, page \in -MaxN..MaxN + 1 :
        /\ op' = "recalculateImage"
        /\ args' = [im |-> handles[1].im, n |-> n, page |-> page]
        /\ handles' = recalculateImage(handles, 1, n, page).hs
        /\ result' = [img |-> NoImg, err |-> ErrNil,
                      n |-> recalculateImage(handles, 1, n, page).n,
                      page |-> recalculateImage(handles, 1, n, page).page]
    /\ log' = log \o <<Ev("recalculateImage", 1, handles[1].checked, 0, 0)>>
    /\ pc' = "done"
    /\ UNCHANGED <<cfg, depth, img, err, sources, deferred, ctx, lifeVars, hookVars>>

\* The caller cancels the context it is about to pass, or its deadline passes.
Cancel ==
    /\ pc = "owned"
    /\ ~ctx.cancelled
    /\ ctx' = [cancelled |-> TRUE, at |-> Len(log)]
    /\ UNCHANGED <<pc, op, args, cfg, depth, handles, img, err, sources, deferred, log,
                   result, lifeVars, hookVars>>

InitUnit == InitReq /\ InitLifeIdle

NextUnit ==
    \/ OwnHandle \/ CallCheckResolution \/ CallThumbnail \/ CallFocalThumbnail
    \/ CallRecalculateImage \/ Cancel

SpecUnit == InitUnit /\ [][NextUnit]_vars

(***************************************************************************)
(* One request through NewThumbnail or NewImage.                           *)
(*                                                                         *)
(* A blob is its declared type, whether it supports animation, whether its *)
(* size is above PNGBufferThreshold, and the image its bytes encode.  The  *)
(* environment decides, at each load, whether the reader or the library    *)
(* fails (e, fe: ErrNil when they do not).                                 *)
(***************************************************************************)
SrcImage(w, ph, npages) == [w |-> w, ph |-> ph, npages |-> npages]
Blob(type, animated, big, src) ==
    [type |-> type, animated |-> animated, big |-> big, src |-> src]

\* What a load yields from the bytes under the frame options: all frames from Page
\* on for N = -1, one frame when N is unset, N frames otherwise.
Frames(npages, options) ==
    IF options.N = -1 THEN npages - options.Page
    ELSE IF options.N = 0 THEN 1
    ELSE options.N
DecodeOk(src, options) ==
    /\ options.Page < src.npages
    /\ options.N <= 0 \/ options.Page + options.N <= src.npages
Decoded(src, options) ==
    Image(src.w, src.ph, Frames(src.npages, options), src.npages, 1)

\* The locals and resources a statement works on, and the log entries it adds.
Cur ==
    [hs |-> handles, img |-> img, err |-> err, srcs |-> sources, dfr |-> deferred,
     ev |-> <<>>]
Opened(m) ==
    [m EXCEPT !.srcs = Append(@, 0), !.dfr = Append(@, Len(m.srcs) + 1),
              !.ev = @ \o <<Ev("NewSource", Len(m.srcs) + 1, TRUE, 0, 0)>>]
SourceClosed(m, s) ==
    [m EXCEPT !.srcs[s] = @ + 1, !.ev = @ \o <<Ev("Source.Close", s, TRUE, 0, 0)>>]
Created(m, im, name) ==
    [m EXCEPT !.hs = Append(@, NewHandle(im)), !.img = Len(m.hs) + 1, !.err = ErrNil,
              !.ev = @ \o <<Ev(name, Len(m.hs) + 1, TRUE, im.w, im.ph)>>]
Failed(m, e, name) ==
    [m EXCEPT !.img = NoImg, !.err = e, !.ev = @ \o <<Ev(name, NoImg, FALSE, 0, 0)>>]
Refused(m, e) == [m EXCEPT !.img = NoImg, !.err = e]
Merged(m, r) == [m EXCEPT !.hs = r.hs, !.img = r.img, !.err = r.err, !.ev = @ \o r.ev]
Worked(m, r) == [m EXCEPT !.hs = r.hs, !.err = r.err, !.ev = @ \o r.ev]
ImgClosed(m) == [m EXCEPT !.hs = Close(@, m.img)]
Wrapped(m) == [m EXCEPT !.err = WrapErr(@), !.ev = @ \o SentryEv(m.err)]

\* A load primitive of the library: the image, or an error and a nil handle.
Load(m, src, options, e, name) ==
    IF e = ErrNil /\ DecodeOk(src, options)
    THEN Created(m, Decoded(src, options), name)
    ELSE Failed(m, IF e = ErrNil THEN ErrVipsLoad ELSE e, name)

\* v.FallbackFunc(blob, options): a whole-buffer decode through another loader.
FallbackFunc(m, blob, options, fe) ==
    Load(m, blob.src, options,
         IF DecodeOk(blob.src, options) THEN fe ELSE ErrFallback, "FallbackFunc")

\* Variant: the primary decode's error is kept when the fallback fails too.
KeepErr(r, e) == IF r.err # ErrNil THEN [r EXCEPT !.err = e] ELSE r
AfterNewImageFromSource_PrimaryErr(m, blob, options, hasFallback, fe) ==
    IF m.err # ErrNil /\ hasFallback
    THEN KeepErr(FallbackFunc(SourceClosed(m, Len(m.srcs)), blob, options, fe), m.err)
    ELSE m

\* Lines 238-243: after vips.NewImageFromSource on the newest source.
AfterNewImageFromSource(m, blob, options, hasFallback, fe) ==
    IF m.err # ErrNil /\ hasFallback
    THEN FallbackFunc(SourceClosed(m, Len(m.srcs)), blob, options, fe)
    ELSE m

newImageFromBlob(m, blob, options, hasFallback, e, fe) ==
    IF blob.type \in {"nil", "empty"} THEN Refused(m, ErrNotFound)
    ELSE IF blob.type = "memory"
    THEN Load(m, blob.src, NoOptions, IF e = ErrRead THEN ErrNil ELSE e, "NewImageFromMemory")
    ELSE IF blob.type = "png" /\ blob.big
    THEN IF e = ErrRead THEN Refused(m, ErrRead)
         ELSE Load(m, blob.src, options, e, "NewImageFromBuffer")
    ELSE IF e = ErrRead THEN Refused(m, ErrRead)
    ELSE AfterNewImageFromSource(Load(Opened(m), blob.src, options, e, "NewImageFromSource"),
                                 blob, options, hasFallback, fe)

\* vips.NewThumbnailSource: decode and resize in one primitive, on the newest source.
NewThumbnailSource(m, src, width, height, crop, size, options, e) ==
    IF e = ErrNil /\ DecodeOk(src, options)
    THEN Created(m, ThumbnailImage(Decoded(src, options), width, height, crop, size),
                 "NewThumbnailSource")
    ELSE Failed(m, IF e = ErrNil THEN ErrVipsLoad ELSE e, "NewThumbnailSource")

newThumbnailFromBlob(m, blob, width, height, crop, size, options, e) ==
    IF blob.type \in {"nil", "empty"} THEN Refused(m, ErrNotFound)
    ELSE IF e = ErrRead THEN Refused(m, ErrRead)
    ELSE NewThumbnailSource(Opened(m), blob.src, width, height, crop, size, options, e)

Guarded(m, unlimited) == Merged(m, CheckResolution(m.hs, m.img, m.err, unlimited))

\* The arguments of the re-entry, from what recalculateImage returned.
ReentryArgs(a, r) == [a EXCEPT !.n = -r.n, !.page = -r.page]

LoadErrs == {ErrNil, ErrRead, ErrVipsLoad, ErrVipsFormat}
FallbackErrs == {ErrNil, ErrFallback}

Goto(m, next) ==
    /\ handles' = m.hs
    /\ img' = m.img
    /\ err' = m.err
    /\ sources' = m.srcs
    /\ deferred' = m.dfr
    /\ log' = log \o m.ev
    /\ pc' = next
    /\ UNCHANGED result

Return(m, i, e) ==
    /\ handles' = m.hs
    /\ img' = i
    /\ err' = e
    /\ sources' = m.srcs
    /\ deferred' = m.dfr
    /\ log' = log \o m.ev
    /\ pc' = "done"
    /\ result' = [img |-> i, err |-> e]

ReturnWrapped(m) == Return(Wrapped(m), NoImg, Wrapped(m).err)

\* return v.NewThumbnail(..., -n, -page, dpi) / return v.NewImage(..., -n, -page, dpi)
Reenter(entry) ==
    /\ depth < MaxDepth
    /\ depth' = depth + 1
    /\ args' = ReentryArgs(args, recalculateImage(handles, img, args.n, args.page))
    /\ handles' = recalculateImage(handles, img, args.n, args.page).hs
    /\ img' = NoImg
    /\ log' = log \o <<Ev("recalculateImage", img, handles[img].checked, 0, 0)>>
    /\ pc' = entry
    /\ UNCHANGED <<op, cfg, err, sources, deferred, result, ctx, lifeVars, hookVars>>

Same == UNCHANGED <<op, args, cfg, depth, ctx, lifeVars, hookVars>>

MultiOptions == applyMultiPageOptions(NoOptions, args.n, args.page)
PlainCrop == args.crop = "none" \/ args.size = "force"

\* Lines 291-296: the multi-frame load when no crop rectangle is needed.
NT294Then(m) == IF m.err # ErrNil THEN ReturnWrapped(m) ELSE Goto(m, "NT297")
NT294 ==
    /\ pc = "NT"
    /\ isMultiPage(args.blob, args.n, args.page) /\ PlainCrop
    /\ \E e \in LoadErrs, fe \in FallbackErrs :
        NT294Then(newImageFromBlob(Cur, args.blob, MultiOptions, cfg.FallbackFunc, e, fe))
    /\ Same

\* Variant: the resize follows the load with no guard in between.
NT297_NoGuard ==
    /\ pc = "NT297"
    /\ IF args.n > 1 \/ args.page > 1
       THEN Reenter("NT")
       ELSE Goto(Cur, "NT305") /\ Same

\* Lines 297-304.
NT302Then(m) == IF m.err # ErrNil THEN Return(m, NoImg, m.err) ELSE Goto(m, "NT305")
NT297 ==
    /\ pc = "NT297"
    /\ IF args.n > 1 \/ args.page > 1
       THEN Reenter("NT")
       ELSE /\ NT302Then(Merged(Cur, CheckResolution(handles, img, ErrNil, cfg.Unlimited)))
            /\ Same

\* Variant: a failed resize returns without closing the handle.
ResizeThen_NoClose(m) == IF m.err # ErrNil THEN ReturnWrapped(m) ELSE Goto(m, "NT334")

\* Lines 305-310 and 320-323: a failed resize closes the handle.
ResizeThen(m) == IF m.err # ErrNil THEN ReturnWrapped(ImgClosed(m)) ELSE Goto(m, "NT334")
NT305 ==
    /\ pc = "NT305"
    /\ \E fail \in BOOLEAN :
        ResizeThen(Worked(Cur, DoThumbnailImage(handles, img, args.width, args.height,
                                                args.crop, args.size, fail)))
    /\ Same

\* Lines 312-314: the multi-frame load when a crop rectangle is needed.
NT312Then(m) == IF m.err # ErrNil THEN ReturnWrapped(m) ELSE Goto(m, "NT315")
NT312 ==
    /\ pc = "NT"
    /\ isMultiPage(args.blob, args.n, args.page) /\ ~PlainCrop
    /\ \E e \in LoadErrs, fe \in FallbackErrs :
        NT312Then(Guarded(newImageFromBlob(Cur, args.blob, MultiOptions,
                                           cfg.FallbackFunc, e, fe), cfg.Unlimited))
    /\ Same

\* Lines 315-323.
NT315 ==
    /\ pc = "NT315"
    /\ IF args.n > 1 \/ args.page > 1
       THEN Reenter("NT")
       ELSE /\ \E fail \in Fails :
                ResizeThen(Worked(Cur, animatedThumbnailWithCrop(
                    handles, img, args.width, args.height, args.crop, args.size, fail)))
            /\ Same

\* Lines 326-329: only jpeg, gif and webp get the thumbnail-on-load.
NT329 ==
    /\ pc = "NT"
    /\ ~isMultiPage(args.blob, args.n, args.page)
    /\ args.blob.type \in {"jpeg", "gif", "webp"}
    /\ \E e \in LoadErrs :
        Goto(newThumbnailFromBlob(Cur, args.blob, args.width, args.height,
                                  args.crop, args.size, NoOptions, e), "NT334")
    /\ Same

\* Lines 331 and 344-346: newThumbnailFallback's load.
TF344Then(m) == IF m.err # ErrNil THEN Goto(m, "NT334") ELSE Goto(m, "TF347")
NT331 ==
    /\ pc = "NT"
    /\ ~isMultiPage(args.blob, args.n, args.page)
    /\ args.blob.type \notin {"jpeg", "gif", "webp"}
    /\ \E e \in LoadErrs, fe \in FallbackErrs :
        TF344Then(Guarded(newImageFromBlob(Cur, args.blob, NoOptions,
                                           cfg.FallbackFunc, e, fe), cfg.Unlimited))
    /\ Same

\* Lines 347-353: newThumbnailFallback's resize; its named results are (img, err).
TF347Then(m) == IF m.err # ErrNil THEN Goto(ImgClosed(m), "NT334") ELSE Goto(m, "NT334")
TF347 ==
    /\ pc = "TF347"
    /\ \E fail \in BOOLEAN :
        TF347Then(Worked(Cur, DoThumbnailImage(handles, img, args.width, args.height,
                                               args.crop, args.size, fail)))
    /\ Same

\* Line 334: return v.CheckResolution(img, WrapErr(err)).
NT334Then(m) == Return(m, m.img, m.err)
NT334 ==
    /\ pc = "NT334"
    /\ NT334Then(Guarded(Wrapped(Cur), cfg.Unlimited))
    /\ Same

\* Lines 367-372.
NI369Then(m) == IF m.err # ErrNil THEN ReturnWrapped(m) ELSE Goto(m, "NI374")
NI369 ==
    /\ pc = "NI"
    /\ isMultiPage(args.blob, args.n, args.page)
    /\ \E e \in LoadErrs, fe \in FallbackErrs :
        NI369Then(Guarded(newImageFromBlob(Cur, args.blob, MultiOptions,
                                           cfg.FallbackFunc, e, fe), cfg.Unlimited))
    /\ Same

\* Variant: the re-entry is made only when n or page exceeds the frame count.
NI374_OnlyOutOfRange ==
    /\ pc = "NI374"
    /\ IF (args.n > 1 /\ args.n > Pages(handles[img].im))
          \/ (args.page > 1 /\ args.page > Pages(handles[img].im))
       THEN Reenter("NI")
       ELSE Return(Cur, img, ErrNil) /\ Same

\* Lines 373-378.
NI374 ==
    /\ pc = "NI374"
    /\ IF args.n > 1 \/ args.page > 1
       THEN Reenter("NI")
       ELSE Return(Cur, img, ErrNil) /\ Same

\* Lines 380-384.
NI380Then(m) == IF m.err # ErrNil THEN ReturnWrapped(m) ELSE Return(m, m.img, ErrNil)
NI380 ==
    /\ pc = "NI"
    /\ ~isMultiPage(args.blob, args.n, args.page)
    /\ \E e \in LoadErrs, fe \in FallbackErrs :
        NI380Then(Guarded(newImageFromBlob(Cur, args.blob, NoOptions,
                                           cfg.FallbackFunc, e, fe), cfg.Unlimited))
    /\ Same

\* The request's context ends: every callback registered with contextDefer runs.
RECURSIVE RunDeferred(_, _)
RunDeferred(srcs, dfr) ==
    IF dfr = <<>> THEN srcs
    ELSE RunDeferred([srcs EXCEPT ![Head(dfr)] = @ + 1], Tail(dfr))

RequestDone ==
    /\ pc = "done"
    /\ sources' = RunDeferred(sources, deferred)
    /\ deferred' = <<>>
    /\ log' = log \o [k \in 1..Len(deferred) |-> Ev("Source.Close", deferred[k], TRUE, 0, 0)]
    /\ pc' = "closed"
    /\ UNCHANGED <<op, args, cfg, depth, handles, img, err, result, ctx, lifeVars, hookVars>>

(***************************************************************************)
(* The requests explored.                                                  *)
(***************************************************************************)
SrcWidths == {2, MaxWidth + 1}
SrcPageHeights == {3}
FrameCounts == {1, MaxN + 1}
PipeCrops == {"none", "centre", "high"}
PipeSizes == {"both", "down", "force"}
PipeWidths == {1, 3}
PipeHeights == {2}
BlobKinds ==
    {<<"empty", FALSE, FALSE>>, <<"memory", FALSE, FALSE>>, <<"jpeg", FALSE, FALSE>>,
     <<"gif", TRUE, FALSE>>, <<"png", FALSE, FALSE>>, <<"png", FALSE, TRUE>>,
     <<"pdf", FALSE, FALSE>>}
PagesOf(k) == IF k[2] \/ k[1] = "pdf" THEN FrameCounts ELSE {1}
Blobs ==
    {Blob(k[1], k[2], k[3], SrcImage(w, ph, np)) :
        k \in BlobKinds, w \in SrcWidths, ph \in SrcPageHeights, np \in FrameCounts}
PipeBlobs == {b \in Blobs : b.src.npages \in PagesOf(<<b.type, b.animated, b.big>>)
                            /\ (b.type = "empty" => b.src.w = 2)}

CallNewThumbnail ==
    /\ pc = "idle"
    /\ \E b \in PipeBlobs, n \in -MaxN..MaxN, page \in -MaxN..MaxN,
          w \in PipeWidths, h \in PipeHeights, crop \in PipeCrops, size \in PipeSizes :
        args' = [blob |-> b, n |-> n, page |-> page, width |-> w, height |-> h,
                 crop |-> crop, size |-> size, n0 |-> n, page0 |-> page]
    /\ \E u \in BOOLEAN, f \in BOOLEAN : cfg' = [Unlimited |-> u, FallbackFunc |-> f]
    /\ op' = "NewThumbnail"
    /\ pc' = "NT"
    /\ UNCHANGED <<depth, handles, img, err, sources, deferred, log, result, ctx, lifeVars, hookVars>>

CallNewImage ==
    /\ pc = "idle"
    /\ \E b \in PipeBlobs, n \in -MaxN..MaxN, page \in -MaxN..MaxN :
        args' = [blob |-> b, n |-> n, page |-> page, n0 |-> n, page0 |-> page]
    /\ \E u \in BOOLEAN, f \in BOOLEAN : cfg' = [Unlimited |-> u, FallbackFunc |-> f]
    /\ op' = "NewImage"
    /\ pc' = "NI"
    /\ UNCHANGED <<depth, handles, img, err, sources, deferred, log, result, ctx, lifeVars, hookVars>>

Init == InitReq /\ InitLifeIdle

Next ==
    \/ CallNewThumbnail \/ CallNewImage
    \/ NT294 \/ NT297 \/ NT305 \/ NT312 \/ NT315 \/ NT329 \/ NT331 \/ TF347 \/ NT334
    \/ NI369 \/ NI374 \/ NI380
    \/ RequestDone

Spec == Init /\ [][Next]_vars

\* The two entries to the resize-and-crop logic: one request through NewThumbnail,
\* or one call of Thumbnail on a handle the caller owns.
NextThumbnail ==
    \/ CallNewThumbnail
    \/ NT294 \/ NT297 \/ NT305 \/ NT312 \/ NT315 \/ NT329 \/ NT331 \/ TF347 \/ NT334
    \/ RequestDone
    \/ OwnHandle \/ CallThumbnail

SpecThumbnail == Init /\ [][NextThumbnail]_vars

(***************************************************************************)
(* Direct calls of the helper functions, on arguments of every shape.      *)
(***************************************************************************)
NilBlob == Blob("nil", FALSE, FALSE, SrcImage(1, 1, 1))
HelperBlobs == PipeBlobs \cup {NilBlob}
HelperInts == -(MaxN + 1)..(MaxN + 1)

CallIsMultiPage ==
    /\ pc = "idle"
    /\ \E b \in HelperBlobs, n \in HelperInts, page \in HelperInts :
        /\ args' = [blob |-> b, n |-> n, page |-> page]
        /\ result' = [img |-> NoImg, err |-> ErrNil, value |-> isMultiPage(b, n, page)]
    /\ op' = "isMultiPage"
    /\ pc' = "done"
    /\ UNCHANGED <<cfg, depth, handles, img, err, sources, deferred, log, ctx, lifeVars, hookVars>>

\* The callers pass the options of a fresh &vips.LoadOptions{}.
CallApplyMultiPageOptions ==
    /\ pc = "idle"
    /\ \E n \in HelperInts, page \in HelperInts :
        /\ args' = [n |-> n, page |-> page]
        /\ result' = [img |-> NoImg, err |-> ErrNil,
                      options |-> applyMultiPageOptions(NoOptions, n, page)]
    /\ op' = "applyMultiPageOptions"
    /\ pc' = "done"
    /\ UNCHANGED <<cfg, depth, handles, img, err, sources, deferred, log, ctx, lifeVars, hookVars>>

NextHelpers == CallIsMultiPage \/ CallApplyMultiPageOptions

SpecHelpers == Init /\ [][NextHelpers]_vars

(***************************************************************************)
(* WrapErr called directly, beside the requests that call it.              *)
(***************************************************************************)
ErrExpired == NewError(<<"expired">>, 410)
WrapInputs ==
    {ErrNil, ErrNotFound, ErrMaxResolutionExceeded, ErrUnsupportedFormat, ErrExpired,
     NewError(<<"generic">>, 406),
     ErrRead, ErrVipsLoad, ErrVipsFormat, ErrFallback, ErrVipsOp, ErrExtract,
     RawErr(<<"VipsForeignLoad:", "is not in a known format">>),
     RawErr(<<"VipsForeignLoad:", "x", "is not in a known format", "y">>),
     RawErr(<<"x", "VipsForeignLoad:", "is not in a known format">>),
     RawErr(<<" ", " ">>), RawErr(<<>>),
     RawErr(<<" ", "a", " ", "b", " ">>)}

CallWrapErr ==
    /\ pc = "idle"
    /\ \E e \in WrapInputs :
        /\ args' = [err |-> e]
        /\ result' = [img |-> NoImg, err |-> WrapErr(e)]
        /\ err' = WrapErr(e)
        /\ log' = log \o SentryEv(e)
    /\ op' = "WrapErr"
    /\ pc' = "done"
    /\ UNCHANGED <<cfg, depth, handles, img, sources, deferred, ctx, lifeVars, hookVars>>

\* WrapErr applied to the error a WrapErr call returned.
CallWrapErrAgain ==
    /\ pc = "done" /\ op = "WrapErr"
    /\ args' = [err |-> args.err, first |-> result.err, sent |-> Len(log)]
    /\ result' = [img |-> NoImg, err |-> WrapErr(result.err)]
    /\ err' = WrapErr(result.err)
    /\ log' = log \o SentryEv(result.err)
    /\ pc' = "rewrapped"
    /\ UNCHANGED <<op, cfg, depth, handles, img, sources, deferred, ctx, lifeVars, hookVars>>

NextErrors == Next \/ CallWrapErr \/ CallWrapErrAgain

SpecErrors == Init /\ [][NextErrors]_vars

(***************************************************************************)
(* Startup and Shutdown beside the requests a started Processor serves:    *)
(* each request is one newImageFromBlob, which reads v.FallbackFunc.       *)
(***************************************************************************)
FreshCur ==
    [hs |-> <<>>, img |-> NoImg, err |-> ErrNil, srcs |-> <<>>, dfr |-> <<>>, ev |-> <<>>]
ServeBlob == Blob("pdf", FALSE, FALSE, SrcImage(2, 3, 1))

ServeThen(m) ==
    /\ handles' = m.hs
    /\ img' = m.img
    /\ err' = m.err
    /\ sources' = RunDeferred(m.srcs, m.dfr)
    /\ deferred' = <<>>
    /\ log' = m.ev
    /\ result' = [img |-> m.img, err |-> m.err]

Serve(p) ==
    /\ p \in calls.started
    /\ \E e \in LoadErrs, fe \in FallbackErrs :
        ServeThen(newImageFromBlob(FreshCur, ServeBlob, NoOptions,
                                   fallbackFunc[p] # "nil", e, fe))
    /\ op' = "newImageFromBlob"
    /\ args' = [proc |-> p, blob |-> ServeBlob]
    /\ cfg' = [Unlimited |-> FALSE, FallbackFunc |-> fallbackFunc[p] # "nil"]
    /\ UNCHANGED <<pc, depth, ctx, lifeVars, hookVars>>

NextServe == \E p \in Procs : Startup(p) \/ Shutdown(p) \/ Serve(p)

\* Processor 1 is configured with a FallbackFunc of its own, the others with none.
InitServe ==
    /\ InitReq
    /\ processorCount = 0
    /\ vipsRunning = FALSE
    /\ vipsStartups = 0
    /\ vipsShutdowns = 0
    /\ calls = [startup |-> 0, shutdown |-> 0, started |-> {}]
    /\ fallbackFunc = [p \in Procs |-> IF p = 1 THEN "custom" ELSE "nil"]
    /\ InitHook

SpecServe == InitServe /\ [][NextServe]_vars

SpecHook == Init /\ [][NextHook]_vars

(***************************************************************************)
(* S3Storage.Get.  Strings are sequences of tokens, "/" being the path     *)
(* separator.  Get derives the bucket, the region and the key from the     *)
(* request's headers and returns a blob; reading the blob calls GetObject  *)
(* and, for a missing object, the imgix fallback.                          *)
(***************************************************************************)
\* getBucketFromRequest
getBucketFromRequest(s, header) ==
    IF ~s.bucketFromRequest THEN s.Bucket
    ELSE IF header = <<>> THEN s.Bucket
    ELSE header

\* Variant: the header's value prefixes the key whatever bucketFromRequest is.
getBucketFromRequestForKey_Always(s, header) == header

\* getBucketFromRequestForKey
getBucketFromRequestForKey(s, header) ==
    IF s.bucketFromRequest THEN <<>> ELSE header

\* getRegionFromRequest
getRegionFromRequest(s, header) ==
    IF ~s.regionFromRequest THEN s.Region
    ELSE IF header = <<>> THEN s.Region
    ELSE header

\* buildKeyWithBucketPrefix
buildKeyWithBucketPrefix(key, bucketPrefix) ==
    IF bucketPrefix = <<>> THEN key
    ELSE IF key = <<>> THEN bucketPrefix
    ELSE IF key[1] = "/" THEN bucketPrefix \o key
    ELSE bucketPrefix \o <<"/">> \o key

\* Errors of client.GetObject: the typed error it unwraps to, if any, and its
\* smithy.APIError code ("" when it is not an APIError).
S3Err(typed, code) == [kind |-> "s3", typed |-> typed, code |-> code]
S3Errs ==
    {S3Err("NoSuchKey", "NoSuchKey"), S3Err("NoSuchBucket", "NoSuchBucket"),
     S3Err("none", "NoSuchKey"), S3Err("none", "NotFound"),
     S3Err("none", "NoSuchBucket"), S3Err("none", "AccessDenied"), S3Err("none", "")}

isNotFoundError(e) ==
    \/ e.typed \in {"NoSuchKey", "NoSuchBucket"}
    \/ e.code # "" /\ e.code \in {"NoSuchKey", "NotFound"}

\* What the blob's reader function returns, and the calls it made.
Fetched(reader, e, ev) == [reader |-> reader, err |-> e, ev |-> ev]
ImgixEv(ok) == Ev("imgix.Do", NoImg, ok, 0, 0)
PutEv(ok) == Ev("s3.PutObject", NoImg, ok, 0, 0)

\* Variant: a failed save to S3 fails the read.
fetchFromImgixAndSave_SaveMustSucceed(x) ==
    IF ~x.newRequest THEN Fetched("nil", ErrNotFound, <<>>)
    ELSE IF ~x.do THEN Fetched("nil", ErrNotFound, <<ImgixEv(FALSE)>>)
    ELSE IF x.status # 200 THEN Fetched("nil", ErrNotFound, <<ImgixEv(TRUE)>>)
    ELSE IF ~x.readAll THEN Fetched("nil", ErrNotFound, <<ImgixEv(TRUE)>>)
    ELSE IF ~x.put THEN Fetched("nil", ErrNotFound, <<ImgixEv(TRUE), PutEv(FALSE)>>)
    ELSE Fetched("imgix", ErrNil, <<ImgixEv(TRUE), PutEv(TRUE)>>)

\* fetchFromImgixAndSave; x says which of its calls succeed.
fetchFromImgixAndSave(x) ==
    IF ~x.newRequest THEN Fetched("nil", ErrNotFound, <<>>)
    ELSE IF ~x.do THEN Fetched("nil", ErrNotFound, <<ImgixEv(FALSE)>>)
    ELSE IF x.status # 200 THEN Fetched("nil", ErrNotFound, <<ImgixEv(TRUE)>>)
    ELSE IF ~x.readAll THEN Fetched("nil", ErrNotFound, <<ImgixEv(TRUE)>>)
    ELSE Fetched("imgix", ErrNil, <<ImgixEv(TRUE), PutEv(x.put)>>)

\* The reader function of the blob Get returns; out is the outcome of
\* client.GetObject: an object, an object older than s.Expiration, or an error.
S3Ok == [kind |-> "ok", typed |-> "none", code |-> ""]
S3Expired == [kind |-> "expired", typed |-> "none", code |-> ""]
GetObjectEv(ok) == <<Ev("s3.GetObject", NoImg, ok, 0, 0)>>
AfterGetObject(r) == [r EXCEPT !.ev = GetObjectEv(FALSE) \o @]
BlobReader(s, out, x) ==
    IF out.kind = "s3"
    THEN IF isNotFoundError(out) /\ s.ImgixFallbackEnabled
         THEN AfterGetObject(fetchFromImgixAndSave(x))
         ELSE IF isNotFoundError(out)
         THEN Fetched("nil", ErrNotFound, GetObjectEv(FALSE))
         ELSE Fetched("nil", out, GetObjectEv(FALSE))
    ELSE IF out.kind = "expired" THEN Fetched("nil", ErrExpired, GetObjectEv(TRUE))
    ELSE Fetched("s3", ErrNil, GetObjectEv(TRUE))

S3Bucket == <<"configured">>
S3Region == <<"us">>
S3Configs ==
    {[Bucket |-> S3Bucket, Region |-> S3Region, bucketFromRequest |-> b,
      regionFromRequest |-> r, ImgixFallbackEnabled |-> f] :
        b \in BOOLEAN, r \in BOOLEAN, f \in BOOLEAN}
BucketHeaders == {<<>>, <<"tenant">>, <<"tenant", "/">>, <<" ", "tenant">>, <<" ">>}
RegionHeaders == {<<>>, <<"eu">>, <<"eu", " ">>}
\* The keys s.Path yields: no leading separator.
PathKeys == {<<>>, <<"a.jpg">>, <<"dir", "/", "a.jpg">>}
ImgixOutcomes ==
    {[newRequest |-> n, do |-> d, status |-> st, readAll |-> ra, put |-> p] :
        n \in BOOLEAN, d \in BOOLEAN, st \in {200, 404}, ra \in BOOLEAN, p \in BOOLEAN}

\* A context value: ctx.Value(k).(string) and whether the key is set.
CtxValue(ok, val) == [ok |-> ok, val |-> val]
\* context.WithValue of the middleware for one header.
WithHeader(h) == IF h # <<>> THEN CtxValue(TRUE, TrimSpace(h)) ELSE CtxValue(FALSE, <<>>)

\* getBucketFromContext
getBucketFromContext(s, v) ==
    IF ~s.bucketFromRequest THEN s.Bucket
    ELSE IF v.ok /\ v.val # <<>> THEN v.val
    ELSE s.Bucket

\* getBucketFromContextForKey
getBucketFromContextForKey(s, v) ==
    IF s.bucketFromRequest THEN <<>>
    ELSE IF v.ok /\ v.val # <<>> THEN v.val
    ELSE <<>>

\* getRegionFromContext
getRegionFromContext(s, v) ==
    IF ~s.regionFromRequest THEN s.Region
    ELSE IF v.ok /\ v.val # <<>> THEN v.val
    ELSE s.Region

\* No address derived.
NoAddr == [op |-> "none", bucket |-> <<>>, region |-> <<>>, key |-> <<>>]

\* S3ConfigMiddleware: a request to a storage configured as s passes the
\* middleware, which copies its two headers into the request's context.
S3ConfigMiddleware ==
    /\ pc = "idle"
    /\ \E s \in S3Configs, hb \in BucketHeaders, hr \in RegionHeaders :
        /\ cfg' = s
        /\ args' = [bucketHeader |-> hb, regionHeader |-> hr,
                    awsBucket |-> WithHeader(hb), awsRegion |-> WithHeader(hr)]
    /\ pc' = "handler"
    /\ op' = "S3ConfigMiddleware"
    /\ UNCHANGED <<depth, handles, img, err, sources, deferred, log, result, ctx,
                   lifeVars, hookVars>>

\* Get, up to the blob it returns.
S3Get ==
    /\ pc = "handler"
    /\ \E key \in PathKeys, pathOk \in BOOLEAN :
        /\ args' = args @@ [image |-> key, pathOk |-> pathOk]
        /\ IF ~pathOk
           THEN /\ result' = [reader |-> "nil", err |-> NewError(<<"invalid">>, 400),
                              bucket |-> <<>>, region |-> <<>>, key |-> <<>>,
                              ctxAddr |-> NoAddr]
                /\ pc' = "done"
           ELSE /\ result' = [reader |-> "nil", err |-> ErrNil,
                              bucket |-> getBucketFromRequest(cfg, args.bucketHeader),
                              region |-> getRegionFromRequest(cfg, args.regionHeader),
                              key |-> buildKeyWithBucketPrefix(
                                          key, getBucketFromRequestForKey(
                                                   cfg, args.bucketHeader)),
                              ctxAddr |-> NoAddr]
                /\ pc' = "blob"
    /\ op' = "S3Storage.Get"
    /\ UNCHANGED <<cfg, depth, handles, img, err, sources, deferred, log, ctx, lifeVars,
                   hookVars>>

\* The blob is read: its reader function runs.
S3ReadThen(r) ==
    /\ result' = [result EXCEPT !.reader = r.reader, !.err = r.err]
    /\ log' = log \o r.ev
S3Read ==
    /\ pc = "blob"
    /\ \E out \in S3Errs \cup {S3Ok, S3Expired}, x \in ImgixOutcomes :
        /\ args' = [args EXCEPT !.pathOk = TRUE] @@ [out |-> out, imgix |-> x]
        /\ S3ReadThen(BlobReader(cfg, out, x))
    /\ pc' = "done"
    /\ UNCHANGED <<op, cfg, depth, handles, img, err, sources, deferred, ctx, lifeVars,
                   hookVars>>

\* Put, Stat and Delete derive the object's address from the request's context;
\* each returns ErrInvalid before deriving it when s.Path refuses the image.
CtxAddr(name) ==
    IF ~args.pathOk THEN [NoAddr EXCEPT !.op = name]
    ELSE [op |-> name,
          bucket |-> getBucketFromContext(cfg, args.awsBucket),
          region |-> getRegionFromContext(cfg, args.awsRegion),
          key |-> buildKeyWithBucketPrefix(
                      args.image, getBucketFromContextForKey(cfg, args.awsBucket))]
CtxOp(name) ==
    /\ pc = "done"
    /\ result' = [result EXCEPT !.ctxAddr = CtxAddr(name)]
    /\ pc' = "stored"
    /\ UNCHANGED <<op, args, cfg, depth, handles, img, err, sources, deferred, log, ctx,
                   lifeVars, hookVars>>
S3Put == CtxOp("S3Storage.Put")
S3Stat == CtxOp("S3Storage.Stat")
S3Delete == CtxOp("S3Storage.Delete")

NextS3 == S3ConfigMiddleware \/ S3Get \/ S3Read \/ S3Put \/ S3Stat \/ S3Delete

SpecS3 == Init /\ [][NextS3]_vars

(***************************************************************************)
(* Properties.                                                             *)
(***************************************************************************)
Returned == pc \in {"done", "closed"}
LogIdx == 1..Len(log)
Abs(x) == IF x >= 0 THEN x ELSE -x

\* C1: CheckResolution on a non-nil handle with a nil error fails with
\* ErrMaxResolutionExceeded exactly when Unlimited is false and the width exceeds
\* MaxWidth, or the page height exceeds MaxHeight, or width x full height exceeds
\* MaxResolution; otherwise it returns a nil error.
C1_GuardIff ==
    (pc = "done" /\ op = "CheckResolution" /\ args.img # NoImg /\ args.err = ErrNil) =>
        /\ result.err = ErrMaxResolutionExceeded <=>
              /\ ~cfg.Unlimited
              /\ \/ args.im.w > MaxWidth
                 \/ args.im.ph > MaxHeight
                 \/ args.im.w * (args.im.ph * args.im.frames) > MaxResolution
        /\ result.err # ErrMaxResolutionExceeded => result.err = ErrNil

\* C1 witness: a handle within the width and page-height limits whose area is
\* exactly MaxResolution has passed the guard with Unlimited unset.
C1_Witness ==
    /\ pc = "done" /\ op = "CheckResolution" /\ args.img # NoImg /\ args.err = ErrNil
    /\ ~cfg.Unlimited
    /\ args.im.w <= MaxWidth /\ args.im.ph <= MaxHeight
    /\ args.im.w * (args.im.ph * args.im.frames) = MaxResolution
    /\ result.err = ErrNil

\* C2 as claimed: no resize (ThumbnailImage, or a successful decode-and-resize
\* NewThumbnailSource) runs on image data that has not passed CheckResolution.
C2_GuardBeforeEveryResize ==
    (op = "NewThumbnail") =>
        \A k \in LogIdx :
            /\ log[k].op = "ThumbnailImage" => log[k].ok
            /\ ~(log[k].op = "NewThumbnailSource" /\ log[k].h # NoImg)

\* C2 amended: in NewThumbnail every ThumbnailImage runs on a handle that has passed
\* CheckResolution, and every handle NewThumbnail returns with a nil error, the
\* result of NewThumbnailSource included, has passed CheckResolution after its
\* last resize.
C2_GuardBeforeThumbnailImage ==
    (op = "NewThumbnail") =>
        /\ \A k \in LogIdx : log[k].op = "ThumbnailImage" => log[k].ok
        /\ (Returned /\ result.err = ErrNil /\ result.img # NoImg) =>
               handles[result.img].checked

\* C2 witness: a NewThumbnail call has returned after a ThumbnailImage on a guarded
\* handle.
C2_Witness ==
    /\ op = "NewThumbnail" /\ pc = "done" /\ result.err = ErrNil
    /\ \E k \in LogIdx : log[k].op = "ThumbnailImage" /\ log[k].ok

\* C3: no handle is ever closed twice, and when NewThumbnail or NewImage has
\* returned every handle created during the call has been closed exactly once,
\* except the one returned with a nil error, which is open.
C3_HandlesClosedOnce ==
    (op \in {"NewThumbnail", "NewImage"}) =>
        /\ \A i \in DOMAIN handles : handles[i].closes <= 1
        /\ Returned =>
              \A i \in DOMAIN handles :
                  handles[i].closes =
                      IF result.err = ErrNil /\ result.img = i THEN 0 ELSE 1

\* C3 witness: a call has returned a handle from its re-entry, the first-pass handle
\* being closed.
C3_Witness ==
    /\ pc = "done" /\ depth = 1 /\ result.err = ErrNil
    /\ Len(handles) = 2 /\ result.img = 2
    /\ handles[1].closes = 1 /\ handles[2].closes = 0

\* C4 as claimed: NewThumbnail and NewImage re-enter themselves at most once, for
\* every n and page.
C4_AtMostOneReentry == depth <= 1

\* C5: when vips.NewImageFromSource fails and FallbackFunc is configured, the source
\* is closed next, the fallback is invoked right after, once per failed decode and
\* never otherwise; a failing fallback's error is what the call returns, and a
\* succeeding fallback's handle is what the next operation works on.
FailedStream(k) == log[k].op = "NewImageFromSource" /\ ~log[k].ok
C5_FallbackResult ==
    (op \in {"NewThumbnail", "NewImage"}) =>
        /\ \A k \in LogIdx : (FailedStream(k) /\ cfg.FallbackFunc) =>
              /\ k + 2 <= Len(log)
              /\ log[k + 1].op = "Source.Close"
              /\ log[k + 1].h = Cardinality({j \in 1..k : log[j].op = "NewSource"})
              /\ log[k + 2].op = "FallbackFunc"
              /\ (~log[k + 2].ok /\ Returned) =>
                     result = [img |-> NoImg, err |-> WrapErr(ErrFallback)]
              /\ (log[k + 2].ok /\ k + 3 <= Len(log)) =>
                     (log[k + 2].h # NoImg /\ log[k + 3].h = log[k + 2].h)
        /\ \A k \in LogIdx : log[k].op = "FallbackFunc" =>
              (cfg.FallbackFunc /\ k > 2 /\ FailedStream(k - 2))

\* C5 witness: the streaming decode and the fallback have both failed and the call
\* has returned the fallback's error.
C5_Witness ==
    /\ pc = "done" /\ cfg.FallbackFunc
    /\ \E k \in LogIdx : FailedStream(k) /\ log[k].h = NoImg
    /\ \E k \in LogIdx : log[k].op = "FallbackFunc" /\ ~log[k].ok
    /\ result.err = WrapErr(ErrFallback)

\* C6 as claimed: once the request is over, Close has been invoked exactly once on
\* every streaming source opened, and never twice before.
C6_SourceClosedOnce ==
    /\ \A x \in DOMAIN sources : sources[x] <= 1
    /\ pc = "closed" => \A x \in DOMAIN sources : sources[x] = 1

\* C7: vips.Shutdown runs exactly in the Shutdown step that takes processorCount
\* from 1 to 0 and leaves the library stopped; a Shutdown that leaves the count
\* positive leaves the library running; vips.Startup runs exactly in the Startup
\* step that takes the count from 0 to 1.
C7_TeardownOnlyLast ==
    [][ /\ (vipsShutdowns' # vipsShutdowns) <=> (processorCount = 1 /\ processorCount' = 0)
        /\ (vipsShutdowns' # vipsShutdowns) => (vipsShutdowns' = vipsShutdowns + 1 /\ ~vipsRunning')
        /\ (calls'.shutdown # calls.shutdown /\ processorCount' > 0) =>
               (vipsRunning /\ vipsRunning')
        /\ (vipsStartups' # vipsStartups) <=> (processorCount = 0 /\ processorCount' = 1)
        /\ (vipsStartups' # vipsStartups) => (vipsStartups' = vipsStartups + 1 /\ vipsRunning')
      ]_vars

\* C7 witness: three Startup calls and three Shutdown calls have been made and the
\* library has been torn down once.
C7_Witness ==
    /\ calls.startup = 3 /\ calls.shutdown = 3
    /\ vipsStartups = 1 /\ vipsShutdowns = 1
    /\ processorCount = 0 /\ ~vipsRunning

\* C8: a rejected handle is closed (once) and (nil, ErrMaxResolutionExceeded) is
\* returned; a passing handle is returned open and unmodified; with a non-nil error
\* or a nil handle both arguments are returned unchanged and nothing is closed.
C8_GuardRelease ==
    (pc = "done" /\ op = "CheckResolution") =>
        IF args.err # ErrNil \/ args.img = NoImg
        THEN /\ result = [img |-> args.img, err |-> args.err]
             /\ handles[1] = [im |-> args.im, closes |-> 0, checked |-> FALSE]
        ELSE \/ /\ result = [img |-> NoImg, err |-> ErrMaxResolutionExceeded]
                /\ handles[args.img].closes = 1
             \/ /\ result = [img |-> args.img, err |-> ErrNil]
                /\ handles[args.img].closes = 0
                /\ handles[args.img].im = args.im

\* C8 witness: a handle has been rejected and closed.
C8_Witness ==
    /\ pc = "done" /\ op = "CheckResolution"
    /\ args.err = ErrNil /\ args.img = 1
    /\ result = [img |-> NoImg, err |-> ErrMaxResolutionExceeded]
    /\ handles[1].closes = 1

\* C9 as claimed: every extraction rectangle issued has 0 <= left <= width - targetW
\* and 0 <= top <= pageHeight - targetH, width and pageHeight being those of the
\* image after the resize step.
C9_ExtractWithinBounds ==
    \A k \in LogIdx : log[k].op = "ExtractAreaMultiPage" =>
        /\ 0 <= log[k].left /\ log[k].left <= log[k].w - log[k].tw
        /\ 0 <= log[k].top /\ log[k].top <= log[k].ph - log[k].th

\* C10 as claimed: after the resize step of animatedThumbnailWithCrop and of
\* FocalThumbnail the image is at least as large as the target in both dimensions
\* and has the source's (displayed) aspect ratio, to within one pixel.
ResizeStepRan ==
    \/ op = "FocalThumbnail"
    \/ /\ op = "Thumbnail"
       /\ args.crop # "none" /\ args.size # "force" /\ args.im.frames > 1
DisplayW(im) == IF im.orient > 4 THEN im.ph ELSE im.w
DisplayH(im) == IF im.orient > 4 THEN im.w ELSE im.ph
C10_ResizeCoversTarget ==
    (pc = "done" /\ ResizeStepRan) =>
        \A k \in LogIdx : log[k].op = "ThumbnailImage" =>
            /\ log[k].w >= args.width
            /\ log[k].ph >= args.height
            /\ Abs(log[k].w * DisplayH(args.im) - log[k].ph * DisplayW(args.im))
                   <= DisplayW(args.im) + DisplayH(args.im)

\* C11 as claimed: recalculateImage closes the handle and returns (n', page') where
\* a page > 1 above the frame count is the frame count, an n > 1 above the frame
\* count is the frame count, and every value within range is returned unchanged.
C11_RecalculateClamps ==
    (pc = "done" /\ op = "recalculateImage") =>
        /\ handles[1].closes = 1
        /\ result.page = IF args.page > 1 /\ args.page > Pages(args.im)
                         THEN Pages(args.im) ELSE args.page
        /\ result.n = IF args.n > 1 /\ args.n > Pages(args.im)
                      THEN Pages(args.im) ELSE args.n

\* C12 as claimed: a multi-frame request whose n and page lie within the source's
\* frame count is served from the first decode, with no re-entry.
MultiFrameRequest ==
    /\ op \in {"NewThumbnail", "NewImage"}
    /\ isMultiPage(args.blob, args.n0, args.page0)
C12_NoRetryWithinRange ==
    (MultiFrameRequest /\ args.n0 <= args.blob.src.npages
                       /\ args.page0 <= args.blob.src.npages) =>
        depth = 0

\* C12 amended: a multi-frame request is served from its first decode exactly when
\* neither n nor page is above 1; with n > 1 or page > 1 the handle NewThumbnail or
\* NewImage returns comes from a re-entry (a second decode), also when the values lie
\* within the source's frame count.
C12_RetryIffAboveOne ==
    MultiFrameRequest =>
        /\ (args.n0 <= 1 /\ args.page0 <= 1) => depth = 0
        /\ (Returned /\ result.err = ErrNil /\ (args.n0 > 1 \/ args.page0 > 1)) =>
               /\ depth >= 1
               /\ \E k \in LogIdx : log[k].op = "recalculateImage"
               /\ result.img > 1

\* C12 witness: NewImage with page = 2 on a three-frame source has returned the
\* handle of its second decode.
C12_Witness ==
    /\ op = "NewImage" /\ pc = "done" /\ result.err = ErrNil
    /\ args.page0 = 2 /\ args.n0 = 0 /\ args.blob.src.npages = 3
    /\ depth = 1 /\ result.img = 2 /\ handles[1].closes = 1

\* C13 as claimed: in a multi-frame request the first-pass handle has passed the
\* resolution guard when recalculateImage reads its frame count and releases it,
\* for every crop and size policy.
C13_GuardBeforeFrameResolution ==
    (op \in {"NewThumbnail", "NewImage"}) =>
        \A k \in LogIdx : log[k].op = "recalculateImage" => log[k].ok

\* C14 as claimed: with a fallback configured, every failed decode attempt made for
\* NewThumbnail or NewImage (streaming, buffered PNG, streaming thumbnail) is
\* followed by an invocation of the fallback before the call returns.
DecodeFailed(k) ==
    /\ log[k].op \in {"NewImageFromSource", "NewImageFromBuffer", "NewThumbnailSource"}
    /\ ~log[k].ok
C14_DecodeFailureReachesFallback ==
    (op \in {"NewThumbnail", "NewImage"} /\ Returned /\ cfg.FallbackFunc) =>
        \A k \in LogIdx : DecodeFailed(k) =>
            \E j \in LogIdx : j > k /\ log[j].op = "FallbackFunc"

\* C15 as claimed: once the context is cancelled Thumbnail and FocalThumbnail start
\* no further resize or extract and return an error.
StageOps ==
    {"NewImageFromSource", "NewImageFromBuffer", "NewImageFromMemory",
     "NewThumbnailSource", "FallbackFunc", "ThumbnailImage", "ExtractAreaMultiPage"}
C15_CancellationObserved ==
    (op \in {"Thumbnail", "FocalThumbnail"} /\ ctx.cancelled) =>
        /\ \A k \in LogIdx : (k > ctx.at) => log[k].op \notin StageOps
        /\ pc = "done" => result.err # ErrNil

\* The call went through animatedThumbnailWithCrop and past its early return.
CropPathRan ==
    /\ pc = "done" /\ op = "Thumbnail"
    /\ args.crop # "none" /\ args.size # "force" /\ args.im.frames > 1
    /\ ~(args.size = "down" /\ args.im.w < args.width /\ args.im.ph < args.height)
IsResize(k) == log[k].op \in {"ThumbnailImage", "ThumbnailImageFailed"}

\* C16: the resize step of animatedThumbnailWithCrop is given the box
\* (targetW, MaxHeight) with crop none exactly when targetW/targetH is greater than
\* width/pageHeight of the source, and the box (MaxWidth, targetH) with crop none
\* otherwise, equal aspect ratios included.
C16_ScaleBranch ==
    CropPathRan =>
        /\ Len(log) >= 1 /\ IsResize(1) /\ log[1].crop = "none"
        /\ IF args.width * args.im.ph > args.im.w * args.height
           THEN log[1].tw = args.width /\ log[1].th = MaxHeight
           ELSE log[1].tw = MaxWidth /\ log[1].th = args.height

\* C16 witness: a source with the target's aspect ratio, not square, has been
\* resized by height.
C16_Witness ==
    /\ CropPathRan
    /\ args.width * args.im.ph = args.im.w * args.height
    /\ args.width # args.height /\ args.width # MaxWidth
    /\ log[1].op = "ThumbnailImage" /\ log[1].tw = MaxWidth /\ log[1].th = args.height

\* Half of d, rounded toward zero.
IsHalf(x, d) == x * d >= 0 /\ 2 * Abs(x) = Abs(d) - (Abs(d) % 2)

\* C17: the extraction origin of animatedThumbnailWithCrop is
\* (width - targetW, pageHeight - targetH) for the high policy and the halves of
\* these for centre and for attention alike, width and pageHeight being those of the
\* resized image.
C17_CropOrigin ==
    (pc = "done" /\ op = "Thumbnail") =>
        \A k \in LogIdx : log[k].op = "ExtractAreaMultiPage" =>
            /\ log[k].tw = args.width /\ log[k].th = args.height
            /\ args.crop = "high" =>
                  /\ log[k].left = log[k].w - args.width
                  /\ log[k].top = log[k].ph - args.height
            /\ args.crop \in {"centre", "attention"} =>
                  /\ IsHalf(log[k].left, log[k].w - args.width)
                  /\ IsHalf(log[k].top, log[k].ph - args.height)

\* C17 witness: an attention crop has extracted a rectangle whose origin is off the
\* image's corner.
C17_Witness ==
    /\ pc = "done" /\ op = "Thumbnail" /\ args.crop = "attention"
    /\ result.err = ErrNil
    /\ \E k \in LogIdx : /\ log[k].op = "ExtractAreaMultiPage" /\ log[k].ok
                         /\ log[k].left + log[k].top > 0

\* C19: with size down and a multi-frame source smaller than the target in both
\* dimensions, the crop pipeline performs no resize and no extraction, returns a nil
\* error and leaves the handle as it was.
SmallSourceDown ==
    /\ pc = "done" /\ op = "Thumbnail"
    /\ args.crop # "none" /\ args.size = "down" /\ args.im.frames > 1
    /\ args.im.w < args.width /\ args.im.ph < args.height
C19_DownOnlyNoOp ==
    SmallSourceDown =>
        /\ log = <<>>
        /\ result.err = ErrNil
        /\ handles[1] = NewHandle(args.im)

\* C19 witness: a 2x3 two-frame source with target 3x4.
C19_Witness ==
    /\ SmallSourceDown
    /\ args.im.w = 2 /\ args.im.ph = 3 /\ args.width = 3 /\ args.height = 4
    /\ result.err = ErrNil

\* C20: FocalThumbnail's resize step chooses its branch from the extents of the
\* source as displayed: (pageHeight, width) for an orientation code above 4 and
\* (width, pageHeight) otherwise, whatever the code within each class.
C20_FocalUsesDisplayExtents ==
    (pc = "done" /\ op = "FocalThumbnail") =>
        /\ Len(log) >= 1 /\ IsResize(1) /\ log[1].crop = "none"
        /\ IF args.width * DisplayH(args.im) > DisplayW(args.im) * args.height
           THEN log[1].tw = args.width /\ log[1].th = MaxHeight
           ELSE log[1].tw = MaxWidth /\ log[1].th = args.height

\* C20 witness: a source whose orientation code is above 4 has been scaled by width
\* where its raw width and page height call for the scale by height.
C20_Witness ==
    /\ pc = "done" /\ op = "FocalThumbnail" /\ args.im.orient = 5
    /\ args.im.w # args.im.ph
    /\ ~(args.width * args.im.ph > args.im.w * args.height)
    /\ log[1].op = "ThumbnailImage"
    /\ log[1].tw = args.width /\ log[1].th = MaxHeight /\ args.width # MaxWidth

\* C18: with crop none or size force, Thumbnail and the multi-frame path of
\* NewThumbnail never invoke an extraction, and invoke ThumbnailImage once, on the
\* target box with the caller's crop option: exactly once in every call of Thumbnail
\* and in every NewThumbnail that returns a handle, never more in the others.
Resizes == {k \in LogIdx : IsResize(k)}
PlainRequest == args.crop = "none" \/ args.size = "force"
C18_PlainResizeOnly ==
    /\ (op = "Thumbnail" /\ pc = "done" /\ PlainRequest) =>
          /\ Len(log) = 1 /\ IsResize(1)
          /\ log[1].tw = args.width /\ log[1].th = args.height /\ log[1].crop = args.crop
    /\ (op = "NewThumbnail" /\ pc # "idle" /\ PlainRequest
                            /\ isMultiPage(args.blob, args.n0, args.page0)) =>
          /\ \A k \in LogIdx : log[k].op # "ExtractAreaMultiPage"
          /\ Cardinality(Resizes) <= 1
          /\ \A k \in Resizes :
                log[k].tw = args.width /\ log[k].th = args.height /\ log[k].crop = args.crop
          /\ (Returned /\ result.err = ErrNil) => Cardinality(Resizes) = 1

\* C18 witness: NewThumbnail with size force and crop centre on a multi-frame source
\* has returned the handle of its re-entry after one resize.
C18_Witness ==
    /\ op = "NewThumbnail" /\ pc = "done" /\ result.err = ErrNil
    /\ args.size = "force" /\ args.crop = "centre"
    /\ isMultiPage(args.blob, args.n0, args.page0) /\ depth = 1
    /\ Cardinality(Resizes) = 1
    /\ \A k \in Resizes : log[k].op = "ThumbnailImage" /\ log[k].h = result.img

\* C21: isMultiPage is true exactly when the blob is non-nil, its format is animated
\* or PDF, and n is neither 0 nor 1 or page is neither 0 nor 1; a negative n or page
\* counts as a frame-subset request.
C21_IsMultiPageIff ==
    (pc = "done" /\ op = "isMultiPage") =>
        (result.value <=>
            /\ args.blob # NilBlob
            /\ (args.blob.animated \/ args.blob.type = "pdf")
            /\ (args.n \notin {0, 1} \/ args.page \notin {0, 1}))

\* C21 witness: a negative page alone, with n = 1, makes a PDF a multi-frame request.
C21_Witness ==
    /\ pc = "done" /\ op = "isMultiPage"
    /\ args.blob.type = "pdf" /\ args.n = 1 /\ args.page = -1
    /\ result.value

\* C22: applyMultiPageOptions sets one load filter on fresh options: Page = -page-1
\* with N unset when page < -1; else N = -n with Page unset when n < -1; else
\* N = -1 (all frames) with Page unset, which is the case of every non-negative n
\* and page.
C22_OneLoadFilter ==
    (pc = "done" /\ op = "applyMultiPageOptions") =>
        /\ result.options =
              IF args.page < -1 THEN [Page |-> -args.page - 1, N |-> 0]
              ELSE IF args.n < -1 THEN [Page |-> 0, N |-> -args.n]
              ELSE [Page |-> 0, N |-> -1]
        /\ (args.n >= 0 /\ args.page >= 0) => result.options = [Page |-> 0, N |-> -1]

\* C22 witness: with n and page both below -1 the page index is set and the frame
\* count is not.
C22_Witness ==
    /\ pc = "done" /\ op = "applyMultiPageOptions"
    /\ args.n = -2 /\ args.page = -3
    /\ result.options = [Page |-> 2, N |-> 0]

\* t is m without its leading and trailing white space.
IsTrimOf(t, m) ==
    /\ t = <<>> \/ (t[1] # " " /\ t[Len(t)] # " ")
    /\ \E i \in 1..Len(m) + 1 :
          /\ i + Len(t) - 1 <= Len(m)
          /\ t = SubSeq(m, i, i + Len(t) - 1)
          /\ \A k \in 1..Len(m) : (k < i \/ k > i + Len(t) - 1) => m[k] = " "
FormatPattern(t) ==
    t # <<>> /\ t[1] = "VipsForeignLoad:" /\ t[Len(t)] = "is not in a known format"
IsGeneric(e) == e.kind = "imagor" /\ e.status = 406
IsClassified(e) ==
    \/ e \in {ErrNotFound, ErrMaxResolutionExceeded, ErrUnsupportedFormat}
    \/ IsGeneric(e)

\* C23: WrapErr keeps nil and every imagor.Error as it is, turns an error whose
\* trimmed message starts with "VipsForeignLoad:" and ends with "is not in a known
\* format" into ErrUnsupportedFormat, and every other error into a 406 error with
\* the trimmed message; every error NewThumbnail and NewImage return is classified.
C23_WrapErrTaxonomy ==
    /\ (pc = "done" /\ op = "WrapErr") =>
          IF args.err = ErrNil THEN result.err = ErrNil
          ELSE IF args.err.kind = "imagor" THEN result.err = args.err
          ELSE \E n \in 0..Len(args.err.msg) :
                  \E t \in [1..n -> {args.err.msg[k] : k \in 1..Len(args.err.msg)}] :
                      /\ IsTrimOf(t, args.err.msg)
                      /\ result.err = IF FormatPattern(t)
                                      THEN ErrUnsupportedFormat
                                      ELSE [kind |-> "imagor", msg |-> t, status |-> 406]
    /\ (op \in {"NewThumbnail", "NewImage"} /\ Returned /\ result.err # ErrNil) =>
          IsClassified(result.err)

\* C23 witness: NewThumbnail has returned ErrUnsupportedFormat for a load error whose
\* message carries white space around the format pattern.
C23_Witness ==
    /\ op = "NewThumbnail" /\ pc = "done"
    /\ result.err = ErrUnsupportedFormat
    /\ \E k \in LogIdx : ~log[k].ok /\ log[k].op = "NewThumbnailSource"

\* C24: WrapErr forwards an error to the diagnostics sink exactly when it makes a
\* 406 error of it; nil, imagor.Error and unsupported-format errors are not
\* forwarded; a NewThumbnail or NewImage call that returns such a 406 error has
\* forwarded one error, and any other call none.
Forwarded == {k \in LogIdx : log[k].op = "sentry"}
C24_ForwardedIffGeneric ==
    /\ (pc = "done" /\ op = "WrapErr") =>
          /\ Cardinality(Forwarded) <= 1
          /\ Forwarded # {} <=> (args.err.kind = "raw" /\ IsGeneric(result.err))
    /\ (op \in {"NewThumbnail", "NewImage"}) =>
          /\ Cardinality(Forwarded) <= 1
          /\ Returned => (Forwarded # {} <=> IsGeneric(result.err))

\* C24 witness: NewImage has failed in its re-entry with a 406 error, forwarded once.
C24_Witness ==
    /\ op = "NewImage" /\ pc = "done" /\ depth = 1
    /\ IsGeneric(result.err)
    /\ Cardinality(Forwarded) = 1

\* C27 as claimed: whenever NewThumbnail or NewImage returns a non-nil error the
\* handle it returns is nil.
C27_NilHandleOnError ==
    (op \in {"NewThumbnail", "NewImage"} /\ Returned /\ result.err # ErrNil) =>
        result.img = NoImg

\* C25: a Processor whose Startup has returned has a non-nil FallbackFunc; a non-nil
\* FallbackFunc, configured before Startup or set by it, is never changed by a
\* Startup, a Shutdown or a request; FallbackFunc changes only in the Startup of a
\* Processor that had none.
C25_FallbackFixed ==
    /\ [](\A p \in calls.started : fallbackFunc[p] # "nil")
    /\ [][\A p \in Procs :
            /\ fallbackFunc[p] # "nil" => fallbackFunc'[p] = fallbackFunc[p]
            /\ fallbackFunc'[p] # fallbackFunc[p] =>
                  /\ calls'.startup = calls.startup + 1
                  /\ p \in calls'.started
                  /\ fallbackFunc'[p] \in {"bufferFallbackFunc", "bmpFallbackFunc"}
       ]_vars

\* C25 witness: a Processor configured with a fallback of its own has been started a
\* second time, after another one detected its fallback, and has served a request
\* through that fallback of its own.
C25_Witness ==
    /\ calls.startup = 3
    /\ \E p \in calls.started, q \in calls.started :
          /\ fallbackFunc[p] = "custom" /\ fallbackFunc[q] = "bmpFallbackFunc"
          /\ op = "newImageFromBlob" /\ args.proc = p
    /\ \E k \in LogIdx : log[k].op = "FallbackFunc"

\* C28: in every state processorCount >= 0 and the library is started exactly when
\* processorCount > 0; a Shutdown at count 0 changes neither the count nor the
\* library's state and does not call vips.Shutdown.
C28_CountInvariant ==
    /\ [](processorCount >= 0 /\ (vipsRunning <=> processorCount > 0))
    /\ [][(calls'.shutdown # calls.shutdown /\ processorCount = 0) =>
              UNCHANGED <<processorCount, vipsRunning, vipsShutdowns>>
       ]_vars

\* C28 witness: a Shutdown was called before any Startup, and a Startup after it has
\* started the library.
C28_Witness ==
    /\ calls.shutdown = 1 /\ calls.startup = 1
    /\ vipsShutdowns = 0 /\ vipsStartups = 1
    /\ processorCount = 1 /\ vipsRunning

\* C26: the value a getCurrentContext call returns is the initial nil or the value
\* of the setCurrentContext call that returned last, at the moment the get reads it
\* and still at the moment the get returns; the register holds that value whenever
\* no writer holds the lock, and a writer excludes readers and other writers.
C26_LastWriterWins ==
    /\ \A t \in Threads : threads[t].pc = "get_runlock" => threads[t].val = lastSet
    /\ \A t \in Threads : threads[t].pc = "get_read" => currentContext = lastSet
    /\ ~contextMutex.writer => currentContext = lastSet
    /\ contextMutex.writer =>
          /\ contextMutex.readers = 0
          /\ Cardinality({t \in Threads : threads[t].pc \in {"set_write", "set_unlock"}}) = 1
    /\ contextMutex.readers =
          Cardinality({t \in Threads : threads[t].pc \in {"get_read", "get_runlock"}})

\* C26 witness: a getCurrentContext is about to return the value of the second of
\* two completed setCurrentContext calls while a third call waits for the lock.
C26_Witness ==
    /\ lastSet = "ctx2"
    /\ \E t \in Threads, u \in Threads :
          /\ threads[t].pc = "get_runlock" /\ threads[t].val = "ctx2"
          /\ threads[u].pc = "set_lock" /\ threads[u].val = "ctx1"

\* The blob of a Get has been read.
S3Done == pc = "done" /\ op = "S3Storage.Get" /\ args.pathOk
Missing(e) ==
    \/ e.typed \in {"NoSuchKey", "NoSuchBucket"}
    \/ e.code \in {"NoSuchKey", "NotFound"}
ImgixContacted == \E k \in LogIdx : log[k].op = "imgix.Do"

\* C29: for a missing object with the imgix fallback enabled the reader returns the
\* imgix body and a nil error exactly when imgix answered 200 and the body was read
\* in full, whatever the save to S3 did, and ErrNotFound otherwise; with the fallback
\* disabled it returns ErrNotFound; any other S3 error is returned as it is, imgix
\* not being contacted.
C29_ImgixFallback ==
    (S3Done /\ args.out \in S3Errs) =>
        IF Missing(args.out)
        THEN IF cfg.ImgixFallbackEnabled
             THEN /\ (result.err = ErrNil /\ result.reader = "imgix") <=>
                        /\ args.imgix.newRequest /\ args.imgix.do
                        /\ args.imgix.status = 200 /\ args.imgix.readAll
                  /\ result.err # ErrNil => (result.err = ErrNotFound /\ result.reader = "nil")
             ELSE result.err = ErrNotFound /\ result.reader = "nil" /\ ~ImgixContacted
        ELSE result.err = args.out /\ result.reader = "nil" /\ ~ImgixContacted

\* C29 witness: the object was missing, imgix answered 200, the save to S3 failed
\* and the reader returned the imgix body.
C29_Witness ==
    /\ S3Done /\ args.out = S3Err("none", "NotFound")
    /\ \E k \in LogIdx : log[k].op = "s3.PutObject" /\ ~log[k].ok
    /\ result.err = ErrNil /\ result.reader = "imgix"

\* C30 as claimed: with bucketFromRequest a non-empty AWS-BUCKET is the bucket and
\* the key is the image path; without it the bucket is the configured one and a
\* non-empty AWS-BUCKET is prepended to the key, joined by one "/".
C30_BucketOrPrefixOneSlash ==
    (op = "S3Storage.Get" /\ pc \in {"blob", "done", "stored"} /\ args.pathOk) =>
        IF cfg.bucketFromRequest
        THEN /\ result.bucket = IF args.bucketHeader # <<>> THEN args.bucketHeader
                                ELSE cfg.Bucket
             /\ result.key = args.image
        ELSE /\ result.bucket = cfg.Bucket
             /\ result.key = IF args.bucketHeader # <<>>
                             THEN args.bucketHeader \o <<"/">> \o args.image
                             ELSE args.image

\* C30 amended: as claimed, except that the "/" is inserted only before a non-empty
\* image path; with an empty image path the key is the AWS-BUCKET value alone.
C30_BucketOrPrefix ==
    (op = "S3Storage.Get" /\ pc \in {"blob", "done", "stored"} /\ args.pathOk) =>
        IF cfg.bucketFromRequest
        THEN /\ result.bucket = IF args.bucketHeader # <<>> THEN args.bucketHeader
                                ELSE cfg.Bucket
             /\ result.key = args.image
        ELSE /\ result.bucket = cfg.Bucket
             /\ result.key = IF args.bucketHeader = <<>> THEN args.image
                             ELSE IF args.image = <<>> THEN args.bucketHeader
                             ELSE args.bucketHeader \o <<"/">> \o args.image

\* C30 witness: without bucketFromRequest the header's value has become the key's
\* prefix and the configured bucket is addressed.
C30_Witness ==
    /\ op = "S3Storage.Get" /\ pc = "blob" /\ ~cfg.bucketFromRequest
    /\ args.bucketHeader = <<"tenant">> /\ args.image = <<"dir", "/", "a.jpg">>
    /\ result.bucket = S3Bucket
    /\ result.key = <<"tenant", "/", "dir", "/", "a.jpg">>

\* C31: after the middleware, the bucket, region and key that Put, Stat and Delete
\* derive from the request's context are those Get derived from its headers for the
\* same image path.
C31_SameAddress ==
    (pc = "stored" /\ args.pathOk) =>
        /\ result.ctxAddr.bucket = result.bucket
        /\ result.ctxAddr.region = result.region
        /\ result.ctxAddr.key = result.key

\* C32: WrapErr applied to what WrapErr returned returns it unchanged and forwards
\* nothing to sentry.
C32_WrapErrIdempotent ==
    (pc = "rewrapped" /\ op = "WrapErr") =>
        /\ result.err = args.first
        /\ Len(log) = args.sent

\* C32 witness: a generic error was wrapped and forwarded once, and wrapping the
\* result again has returned the same imagor.Error.
C32_Witness ==
    /\ pc = "rewrapped" /\ op = "WrapErr"
    /\ args.err = RawErr(<<" ", "a", " ", "b", " ">>)
    /\ args.first = NewError(<<"a", " ", "b">>, 406)
    /\ result.err = args.first
    /\ Len(log) = 1 /\ log[1].op = "sentry"

====
